---- MODULE Spec2Model ----
(***************************************************************************)
(* Model of the voice pipeline of localgpt: the Dispatcher                 *)
(* (src/voice/dispatcher.rs) and the per-user PipelineWorker               *)
(* (src/voice/worker.rs) with the STT session, agent bridge and TTS        *)
(* provider it awaits on.                                                  *)
(***************************************************************************)
EXTENDS Integers, Sequences, FiniteSets, TLC

\* ---------------------------------------------------------------- bounds
NumUsers == 2
MaxTasks == 2
MaxTokens == 3
MaxEvents == 2
MaxQueue == 1
NumGuilds == 2
MaxIndex == 2
MaxResets == 1
MaxSegments == 3
MaxConcurrent == 2
ChannelCapacity == 1
MaxAudioLen == 2
MaxLimit == 2
MaxAccessSeq == 4
NumParams == 3
MaxInputLen == 5
MaxMinLength == 2
NumSsrcs == 3
NumSpeakers == 3
MaxMessages == 9
NumClients == 3
MaxAttempts == 34
MaxIntervalLog2 == 54
NumHandlers == 3

\* tts_pipeline.rs: DEFAULT_MAX_CONCURRENT.
DEFAULT_MAX_CONCURRENT == 3

\* splitter.rs: DEFAULT_MIN_LENGTH.
DEFAULT_MIN_LENGTH == 2

\* discord/mod.rs: the capacity of the text message queue, mpsc::channel(5).
QUEUE_CAPACITY == 5

\* VoiceSttWsConfig::default().max_reconnect_attempts.
DEFAULT_MAX_RECONNECT_ATTEMPTS == 10

\* The width of u32, the type of the backoff factor 2u32.saturating_pow(attempt).
U32_BITS == 32

\* The width of u64, the type of the seconds of a Duration.
U64_BITS == 64

\* voice.pipeline.max_concurrent_stt: the configured cap on STT sessions.
max_concurrent_stt == 1

Users == 1..NumUsers
Tasks == 1..MaxTasks
Tokens == 1..MaxTokens

\* SttEvent variants as the worker's match arms tell them apart: Final with
\* blank text, Final with text, SpeechStart, and the rest (Partial, SpeechEnd).
SttEvent == {"SpeechStart", "Partial", "Final", "FinalBlank"}

\* What the STT stream delivers: events, then possibly its end (a Close frame,
\* the end of the WebSocket stream, the mock's Closed state).
StreamItem == SttEvent \cup {"Close"}

\* WorkerExitReason, plus the source of the error when run returns Err.
WorkerExitReason == {"ChannelClosed", "IdleTimeout", "Cancelled"}
WorkerError == {"SttError", "AgentError", "TtsError"}

NoHandle == [task |-> 0, cancel |-> 0]

\* Guild ids are Discord snowflakes: never zero.
Guilds == 1..NumGuilds

\* VcConnectionState, without the payload of its variants.
VcConnectionState == {"Disconnected", "Connecting", "Connected", "Reconnecting"}

\* What gw_last holds before any gateway operation has run.
NoOp == [op |-> "none", guild |-> 0, half |-> "none", from |-> "Disconnected",
         to |-> "None", accepted |-> TRUE, result |-> "Ok", attempts |-> 0]

VARIABLES
    workers,           \* Dispatcher.workers: user id -> WorkerState (or NoHandle)
    dispatcher_alive,  \* FALSE once the Dispatcher value has been dropped
    interrupt_enabled, \* Dispatcher.interrupt_enabled
    stt_provider,      \* which SttProvider implementation is configured
    next_task,         \* number of tokio::spawn calls made so far, plus one
    next_token,        \* number of CancellationToken::new calls so far, plus one
    cancelled,         \* the tokens on which cancel() has been called
    pc,                \* per worker task: where it is suspended
    exit,              \* per worker task: what run() returned
    user_id,           \* PipelineWorker.user_id
    cancel,            \* PipelineWorker.cancel (a clone of the token at spawn)
    is_playing,        \* the Arc<AtomicBool> shared by handle and worker
    audio_rx,          \* number of PCM chunks queued on the worker's channel
    stt_events,        \* events the STT session has ready for recv_event
    emitted,           \* number of stream items produced so far
    deadline_passed,   \* now >= last_speech_at + idle_timeout
    transcript,        \* entries sent on transcript_tx, with the emitting user
    audio_output       \* messages sent on audio_output_tx

\* The VoiceGateway (src/voice/gateway.rs).
VARIABLES
    connection_states,     \* VoiceGateway.connection_states, read through get_state
    pending_voice_states,  \* guilds with an entry in pending_voice_states
    pending_voice_servers, \* guilds with an entry in pending_voice_servers
    calls,                 \* guilds with a songbird Call in VoiceGateway.calls
    gw_last                \* the gateway operation that ran last, and what it did

\* The SequencedPlaybackQueue (src/voice/playback.rs).
VARIABLES
    next_index,        \* SequencedPlaybackQueue.next_index
    buffer,            \* SequencedPlaybackQueue.buffer, as the set of its values
    total_segments,    \* SequencedPlaybackQueue.total_segments: <<>> for None, <<n>> for Some(n)
    rx,                \* SequencedPlaybackQueue.rx: "Some" until taken, then "None"
    receiver_alive,    \* the receiver of the current channel has not been dropped
    tx_open,           \* SequencedPlaybackQueue.tx, the sender, has not been dropped
    delivered,         \* the segments sent on the current channel, in order
    resets,            \* number of reset() calls so far
    submitted,         \* the indices submitted on the current channel, and whether no index came twice
    pq_last            \* the queue operation that ran last, and what it returned

\* One TtsPipeline::process call (src/voice/tts_pipeline.rs).
VARIABLES
    max_concurrent,    \* the permits the pipeline's semaphore was created with
    sentence_stream,   \* the items of the input stream
    consumed,          \* number of items stream.next() has yielded
    permits,           \* permits available on the semaphore
    feeder,            \* where the outer spawned task is suspended
    synth,             \* the synthesis tasks spawned so far, in spawn order
    out_channel,       \* items buffered in the mpsc channel process() returned
    received,          \* items the receiver has taken, in order
    rx_ended           \* the receiver has seen None

\* The TtsCache (src/voice/tts_cache.rs).
VARIABLES
    max_total_bytes,   \* TtsCache.max_total_bytes
    rows,              \* the rows of table tts_cache
    cache_last         \* the cache operation that ran last, and what it returned

\* One SentenceSplitter::split call (src/voice/splitter.rs).
VARIABLES
    min_length,        \* SentenceSplitter.min_length
    split_buffer,      \* the task's buffer, a string as a sequence of characters
    seq,               \* the task's seq
    sentences,         \* the items sent on tx so far, in order
    input,             \* the tokens the task has taken from the stream, concatenated
    split_task         \* "running", or "returned" once the task has ended

\* The SsrcUserMap (src/voice/ssrc_map.rs). A map is the set of its
\* <<key, value>> entries.
VARIABLES
    ssrc_to_user,      \* SsrcUserMap.ssrc_to_user: SSRC -> (user_id, username)
    user_to_ssrc,      \* SsrcUserMap.user_to_ssrc: user_id -> SSRC
    ssrc_last          \* the call that ran last

\* The text message queue of the Discord channel (src/discord/mod.rs).
VARIABLES
    text_queue,        \* the messages buffered in the mpsc channel, oldest first
    next_message,      \* the number of the next message to arrive
    retrying,          \* the message whose first try_send found the queue full, or 0
    lost               \* the messages that arrived and were never enqueued

\* A TurnGate and its clones (src/concurrency/turn_gate.rs).
VARIABLES
    available_permits, \* the permits the shared semaphore has left
    gate_pc,           \* per client: "idle", "waiting" in acquire(), or "holding" a permit
    gate_last          \* the call that returned last, and what it returned

\* One WsSttProvider::connect_with_retry call (src/voice/provider/stt/ws.rs).
VARIABLES
    max_reconnect_attempts, \* config.max_reconnect_attempts
    base_interval,     \* base_interval, as the binary logarithm of its seconds
    attempt,           \* the loop variable
    retry_pc,          \* "connect", "sleep", or how the call ended: "Ok", "Err", "panic"
    connects,          \* number of connect_async calls made
    backoffs           \* the factors of the backoffs slept so far, in order

\* The handshake handlers of one guild, running concurrently on the gateway's
\* pending maps (src/voice/gateway.rs).
VARIABLES
    hs_kind,           \* per handler: "state" (voice state update) or "server" (voice server update)
    hs_pc,             \* per handler: the map operation it runs next, or "done"
    hs_states,         \* pending_voice_states' entry of the guild: the halves stored, at most one
    hs_servers,        \* pending_voice_servers' entry of the guild: the halves stored, at most one
    hs_state,          \* per handler: try_connect's local `state`, <<>> before the remove
    attempts           \* the call.connect calls made: the state half and the server half of each

pipelineVars == <<workers, dispatcher_alive, interrupt_enabled, stt_provider, next_task,
                  next_token, cancelled, pc, exit, user_id, cancel, is_playing,
                  audio_rx, stt_events, emitted, deadline_passed,
                  transcript, audio_output>>

gatewayVars == <<connection_states, pending_voice_states, pending_voice_servers,
                 calls, gw_last>>

playbackVars == <<next_index, buffer, total_segments, rx, receiver_alive, tx_open,
                  delivered, resets, submitted, pq_last>>

ttsVars == <<max_concurrent, sentence_stream, consumed, permits, feeder, synth,
             out_channel, received, rx_ended>>

cacheVars == <<max_total_bytes, rows, cache_last>>

splitVars == <<min_length, split_buffer, seq, sentences, input, split_task>>

ssrcVars == <<ssrc_to_user, user_to_ssrc, ssrc_last>>

textQueueVars == <<text_queue, next_message, retrying, lost>>

gateVars == <<available_permits, gate_pc, gate_last>>

retryVars == <<max_reconnect_attempts, base_interval, attempt, retry_pc, connects,
               backoffs>>

handshakeVars == <<hs_kind, hs_pc, hs_states, hs_servers, hs_state, attempts>>

\* The helpers around the pipeline: the sentence splitter, the SSRC map, the
\* text message queue, the turn gate, the STT connection loop and the handshake
\* handlers of one guild.
helperVars == <<splitVars, ssrcVars, textQueueVars, gateVars, retryVars, handshakeVars>>

\* The components that are frozen while a helper is exercised.
coreVars == <<pipelineVars, gatewayVars, playbackVars, ttsVars, cacheVars>>

vars == <<coreVars, helperVars>>

\* What the voice pipeline (dispatcher and workers) never touches.
nonPipelineVars == <<gatewayVars, playbackVars, ttsVars, cacheVars, helperVars>>

dispatcherVars == <<workers, dispatcher_alive, interrupt_enabled, next_task, next_token>>
configVars == <<interrupt_enabled, stt_provider>>

\* ------------------------------------------------------------ helpers
\* CancellationToken::is_cancelled
is_cancelled(tok) == tok \in cancelled

\* The child token process_text derives from self.cancel: nothing else holds
\* it, so it is cancelled exactly when its parent is.
response_cancelled(t) == is_cancelled(cancel[t])

\* A spawned task that has not finished.
Live(t) == pc[t] \notin {"unspawned", "done"}

\* The receiving half of the worker's audio channel still exists.
RxAlive(t) == Live(t)

\* Every sender of the worker's audio channel has been dropped.
ChannelClosed(t) == \A u \in Users : workers[u].task # t

\* Dispatcher::is_user_playing
is_user_playing(u) == workers[u] # NoHandle /\ is_playing[workers[u].task]

send_transcript(u, kind) == transcript' = Append(transcript, [user |-> u, kind |-> kind])

\* run() returns: its locals (the STT session, last_speech_at) are dropped; the
\* task keeps the worker (and its receiver) until it ends.
Return(t, result) ==
    /\ pc' = [pc EXCEPT ![t] = "returned"]
    /\ exit' = [exit EXCEPT ![t] = result]
    /\ stt_events' = [stt_events EXCEPT ![t] = <<>>]
    /\ deadline_passed' = [deadline_passed EXCEPT ![t] = FALSE]

\* Dispatcher::new: no workers, nothing spawned.
PipelineInit ==
    /\ workers = [u \in Users |-> NoHandle]
    /\ dispatcher_alive = TRUE
    /\ interrupt_enabled \in BOOLEAN
    /\ stt_provider \in {"ws", "mock"}
    /\ next_task = 1
    /\ next_token = 1
    /\ cancelled = {}
    /\ pc = [t \in Tasks |-> "unspawned"]
    /\ exit = [t \in Tasks |-> "none"]
    /\ user_id = [t \in Tasks |-> 0]
    /\ cancel = [t \in Tasks |-> 0]
    /\ is_playing = [t \in Tasks |-> FALSE]
    /\ audio_rx = [t \in Tasks |-> 0]
    /\ stt_events = [t \in Tasks |-> <<>>]
    /\ emitted = 0
    /\ deadline_passed = [t \in Tasks |-> FALSE]
    /\ transcript = <<>>
    /\ audio_output = <<>>

\* VoiceGateway::new: four empty maps; a guild without an entry in
\* connection_states reads as Disconnected (get_state, transition).
GatewayNew ==
    /\ connection_states = [g \in Guilds |-> "Disconnected"]
    /\ pending_voice_states = {}
    /\ pending_voice_servers = {}
    /\ calls = {}
    /\ gw_last = NoOp

\* What pq_last holds before any queue operation has run.
NoQueueOp == [op |-> "none", index |-> 0, returned |-> "None"]

\* SequencedPlaybackQueue::new.
PlaybackNew ==
    /\ next_index = 0
    /\ buffer = {}
    /\ total_segments = <<>>
    /\ rx = "Some"
    /\ receiver_alive = TRUE
    /\ tx_open = TRUE
    /\ delivered = <<>>
    /\ resets = 0
    /\ submitted = [indices |-> {}, distinct |-> TRUE]
    /\ pq_last = NoQueueOp

\* TtsPipeline::new(tts, limit) followed by process(stream), before the
\* spawned task has run.
TtsNew(limit, stream) ==
    /\ max_concurrent = limit
    /\ sentence_stream = stream
    /\ consumed = 0
    /\ permits = limit
    /\ feeder = "next"
    /\ synth = <<>>
    /\ out_channel = <<>>
    /\ received = <<>>
    /\ rx_ended = FALSE

\* What cache_last holds before any cache operation has run.
NoCacheOp == [op |-> "none", params |-> 0, given |-> "None", returned |-> "None",
              count_before |-> 0, present_before |-> FALSE]

\* A TtsCache over an empty table whose limit is `limit` bytes.
CacheNew(limit) ==
    /\ max_total_bytes = limit
    /\ rows = {}
    /\ cache_last = NoCacheOp

\* The components outside the voice pipeline as they stand while they are
\* not exercised.
TtsIdle == TtsNew(DEFAULT_MAX_CONCURRENT, <<>>)
CacheIdle == CacheNew(0)

\* A split call of a splitter with the given min_length, before its first token.
SplitNew(min_len) ==
    /\ min_length = min_len
    /\ split_buffer = <<>>
    /\ seq = 0
    /\ sentences = <<>>
    /\ input = <<>>
    /\ split_task = "running"

\* SsrcUserMap::new().
SsrcNew ==
    /\ ssrc_to_user = {}
    /\ user_to_ssrc = {}
    /\ ssrc_last = [op |-> "none", ssrc |-> 0, user_id |-> 0]

\* DiscordChannel::new(): mpsc::channel(5), nothing sent yet.
TextQueueNew ==
    /\ text_queue = <<>>
    /\ next_message = 1
    /\ retrying = 0
    /\ lost = {}

\* TurnGate::new(): Semaphore::new(1), every clone idle.
GateNew ==
    /\ available_permits = 1
    /\ gate_pc = [c \in 1..NumClients |-> "idle"]
    /\ gate_last = [op |-> "none", client |-> 0, returned |-> "None", busy_before |-> FALSE]

\* WsSttProvider::new(config), before connect_with_retry has run. The interval
\* is held as the binary logarithm of its length in seconds.
RetryNew(max, interval_log2) ==
    /\ max_reconnect_attempts = max
    /\ base_interval = interval_log2
    /\ attempt = 0
    /\ retry_pc = "connect"
    /\ connects = 0
    /\ backoffs = <<>>

\* VoiceGateway::new() for the guild's pending entries, and the handlers about
\* to run: none has touched a map.
HandshakeNew(kinds) ==
    /\ hs_kind = kinds
    /\ hs_pc = [h \in 1..NumHandlers |-> "insert"]
    /\ hs_states = {}
    /\ hs_servers = {}
    /\ hs_state = [h \in 1..NumHandlers |-> <<>>]
    /\ attempts = <<>>

\* The helpers as they stand while they are not exercised.
HelperIdle ==
    /\ SplitNew(DEFAULT_MIN_LENGTH) /\ SsrcNew /\ TextQueueNew /\ GateNew
    /\ RetryNew(DEFAULT_MAX_RECONNECT_ATTEMPTS, 0)
    /\ HandshakeNew([h \in 1..NumHandlers |-> "state"])


Init == PipelineInit /\ GatewayNew /\ PlaybackNew /\ TtsIdle /\ CacheIdle /\ HelperIdle

\* ------------------------------------------------------------ Dispatcher
\* dispatch() as it would be with insert in place of entry().or_insert_with:
\* a worker is spawned whether or not the user already has one.
DispatchSpawn_AlwaysInsert(u) ==
    /\ dispatcher_alive
    /\ next_task <= MaxTasks
    /\ next_token <= MaxTokens
    /\ workers' = [workers EXCEPT ![u] = [task |-> next_task, cancel |-> next_token]]
    /\ pc' = [pc EXCEPT ![next_task] = "connect"]
    /\ user_id' = [user_id EXCEPT ![next_task] = u]
    /\ cancel' = [cancel EXCEPT ![next_task] = next_token]
    /\ audio_rx' = [audio_rx EXCEPT ![next_task] = 1]
    /\ next_task' = next_task + 1
    /\ next_token' = next_token + 1
    /\ UNCHANGED nonPipelineVars
    /\ UNCHANGED <<dispatcher_alive, configVars, cancelled, exit, is_playing,
                   stt_events, emitted, deadline_passed, transcript,
                   audio_output>>

\* dispatch(): no entry for the user, so or_insert_with spawns a worker and the
\* chunk is sent to it.
DispatchSpawn(u) ==
    /\ dispatcher_alive
    /\ workers[u] = NoHandle
    /\ next_task <= MaxTasks
    /\ next_token <= MaxTokens
    /\ workers' = [workers EXCEPT ![u] = [task |-> next_task, cancel |-> next_token]]
    /\ pc' = [pc EXCEPT ![next_task] = "connect"]
    /\ user_id' = [user_id EXCEPT ![next_task] = u]
    /\ cancel' = [cancel EXCEPT ![next_task] = next_token]
    /\ audio_rx' = [audio_rx EXCEPT ![next_task] = 1]
    /\ next_task' = next_task + 1
    /\ next_token' = next_token + 1
    /\ UNCHANGED nonPipelineVars
    /\ UNCHANGED <<dispatcher_alive, configVars, cancelled, exit, is_playing,
                   stt_events, emitted, deadline_passed, transcript,
                   audio_output>>

\* The send as it would be if it succeeded whether or not the receiver exists.
DispatchSend_NoCheck(u) ==
    /\ dispatcher_alive
    /\ workers[u] # NoHandle
    /\ audio_rx[workers[u].task] < MaxQueue
    /\ audio_rx' = [audio_rx EXCEPT ![workers[u].task] = @ + 1]
    /\ UNCHANGED nonPipelineVars
    /\ UNCHANGED <<dispatcherVars, stt_provider, cancelled, pc, exit, user_id,
                   cancel, is_playing, stt_events, emitted,
                   deadline_passed, transcript, audio_output>>

\* dispatch(): the entry exists and the send succeeds.
DispatchSend(u) ==
    /\ dispatcher_alive
    /\ workers[u] # NoHandle
    /\ RxAlive(workers[u].task)
    /\ audio_rx[workers[u].task] < MaxQueue
    /\ audio_rx' = [audio_rx EXCEPT ![workers[u].task] = @ + 1]
    /\ UNCHANGED nonPipelineVars
    /\ UNCHANGED <<dispatcherVars, stt_provider, cancelled, pc, exit, user_id,
                   cancel, is_playing, stt_events, emitted,
                   deadline_passed, transcript, audio_output>>

\* dispatch(): the entry exists but the worker has gone; the stale entry is
\* removed and the chunk is lost.
DispatchStale(u) ==
    /\ dispatcher_alive
    /\ workers[u] # NoHandle
    /\ ~RxAlive(workers[u].task)
    /\ workers' = [workers EXCEPT ![u] = NoHandle]
    /\ UNCHANGED nonPipelineVars
    /\ UNCHANGED <<dispatcher_alive, configVars, next_task, next_token, cancelled,
                   pc, exit, user_id, cancel, is_playing, audio_rx, stt_events,
                   emitted, deadline_passed, transcript, audio_output>>

dispatch(u) == DispatchSpawn(u) \/ DispatchSend(u) \/ DispatchStale(u)

\* handle_interrupt() as it would be without the state.cancel.cancel() call:
\* the token is replaced and the flag cleared, the old token left alone.
InterruptCancel_NoCancel(u) ==
    /\ dispatcher_alive
    /\ interrupt_enabled
    /\ workers[u] # NoHandle
    /\ is_playing[workers[u].task]
    /\ next_token <= MaxTokens
    /\ workers' = [workers EXCEPT ![u].cancel = next_token]
    /\ next_token' = next_token + 1
    /\ is_playing' = [is_playing EXCEPT ![workers[u].task] = FALSE]
    /\ UNCHANGED nonPipelineVars
    /\ UNCHANGED <<dispatcher_alive, configVars, next_task, cancelled, pc, exit,
                   user_id, cancel, audio_rx, stt_events, emitted,
                   deadline_passed, transcript, audio_output>>

\* The cancelling branch as it would be without the test of is_playing.
InterruptCancel_AnyFlag(u) ==
    /\ dispatcher_alive
    /\ interrupt_enabled
    /\ workers[u] # NoHandle
    /\ next_token <= MaxTokens
    /\ cancelled' = cancelled \cup {workers[u].cancel}
    /\ workers' = [workers EXCEPT ![u].cancel = next_token]
    /\ next_token' = next_token + 1
    /\ is_playing' = [is_playing EXCEPT ![workers[u].task] = FALSE]
    /\ UNCHANGED nonPipelineVars
    /\ UNCHANGED <<dispatcher_alive, configVars, next_task, pc, exit, user_id,
                   cancel, audio_rx, stt_events, emitted,
                   deadline_passed, transcript, audio_output>>

\* handle_interrupt(): interrupts enabled, the user has a handle and its flag
\* is set: cancel the held token, install a new one, clear the flag.
InterruptCancel(u) ==
    /\ dispatcher_alive
    /\ interrupt_enabled
    /\ workers[u] # NoHandle
    /\ is_playing[workers[u].task]
    /\ next_token <= MaxTokens
    /\ cancelled' = cancelled \cup {workers[u].cancel}
    /\ workers' = [workers EXCEPT ![u].cancel = next_token]
    /\ next_token' = next_token + 1
    /\ is_playing' = [is_playing EXCEPT ![workers[u].task] = FALSE]
    /\ UNCHANGED nonPipelineVars
    /\ UNCHANGED <<dispatcher_alive, configVars, next_task, pc, exit, user_id,
                   cancel, audio_rx, stt_events, emitted,
                   deadline_passed, transcript, audio_output>>

\* handle_interrupt(): disabled, unknown user, or not playing: nothing happens.
InterruptNoop(u) ==
    /\ dispatcher_alive
    /\ ~(interrupt_enabled /\ workers[u] # NoHandle /\ is_playing[workers[u].task])
    /\ UNCHANGED vars

handle_interrupt(u) == InterruptCancel(u) \/ InterruptNoop(u)

\* The Dispatcher is dropped: the table and with it every audio sender goes.
DropDispatcher ==
    /\ dispatcher_alive
    /\ dispatcher_alive' = FALSE
    /\ workers' = [u \in Users |-> NoHandle]
    /\ UNCHANGED nonPipelineVars
    /\ UNCHANGED <<configVars, next_task, next_token, cancelled, pc, exit,
                   user_id, cancel, is_playing, audio_rx, stt_events,
                   emitted, deadline_passed, transcript, audio_output>>

\* ------------------------------------------------------------ environment
\* The STT service delivers the next item of the session's stream, while the
\* worker is suspended at one of its await points with the session open.
SttEmit(t, e) ==
    /\ pc[t] \in {"select", "drain", "generate", "tts"}
    /\ emitted < MaxEvents
    /\ IF stt_events[t] = <<>> THEN TRUE
                             ELSE stt_events[t][Len(stt_events[t])] # "Close"
    /\ stt_events' = [stt_events EXCEPT ![t] = Append(@, e)]
    /\ emitted' = emitted + 1
    /\ UNCHANGED nonPipelineVars
    /\ UNCHANGED <<dispatcherVars, stt_provider, cancelled, pc, exit, user_id,
                   cancel, is_playing, audio_rx, deadline_passed,
                   transcript, audio_output>>

\* Time passes while the worker is suspended in its main select!:
\* idle_timeout has elapsed since last_speech_at.
IdleDeadline(t) ==
    /\ pc[t] = "select"
    /\ ~deadline_passed[t]
    /\ deadline_passed' = [deadline_passed EXCEPT ![t] = TRUE]
    /\ UNCHANGED nonPipelineVars
    /\ UNCHANGED <<dispatcherVars, stt_provider, cancelled, pc, exit, user_id,
                   cancel, is_playing, audio_rx, stt_events, emitted,
                   transcript, audio_output>>

\* ------------------------------------------------------------ PipelineWorker
\* What no step of the worker changes.
workerFixed == <<dispatcherVars, stt_provider, cancelled, user_id, cancel,
                 emitted>>

\* run(): stt_provider.connect() succeeds; last_speech_at = now.
Connect(t) ==
    /\ pc[t] = "connect"
    /\ pc' = [pc EXCEPT ![t] = "select"]
    /\ UNCHANGED nonPipelineVars
    /\ UNCHANGED <<workerFixed, exit, is_playing, audio_rx, stt_events,
                   deadline_passed, transcript, audio_output>>

\* run(): connect() fails (connect_with_retry gives up) and `?` returns Err.
ConnectFail(t) ==
    /\ pc[t] = "connect"
    /\ stt_provider = "ws"
    /\ Return(t, "SttError")
    /\ UNCHANGED nonPipelineVars
    /\ UNCHANGED <<workerFixed, is_playing, audio_rx,
                   transcript, audio_output>>

\* select!, first branch: the worker's token is cancelled.
SelectCancelled(t) ==
    /\ pc[t] = "select"
    /\ is_cancelled(cancel[t])
    /\ Return(t, "Cancelled")
    /\ UNCHANGED nonPipelineVars
    /\ UNCHANGED <<workerFixed, is_playing, audio_rx,
                   transcript, audio_output>>

\* select!, second branch: the idle deadline has passed.
SelectIdle(t) ==
    /\ pc[t] = "select"
    /\ ~is_cancelled(cancel[t])
    /\ deadline_passed[t]
    /\ Return(t, "IdleTimeout")
    /\ UNCHANGED nonPipelineVars
    /\ UNCHANGED <<workerFixed, is_playing, audio_rx,
                   transcript, audio_output>>

\* The third branch as it would be if select! polled it without regard to the
\* branches written before it.
SelectAudio_Unbiased(t) ==
    /\ pc[t] = "select"
    /\ audio_rx[t] > 0
    /\ audio_rx' = [audio_rx EXCEPT ![t] = @ - 1]
    /\ pc' = [pc EXCEPT ![t] = "drain"]
    /\ UNCHANGED nonPipelineVars
    /\ UNCHANGED <<workerFixed, exit, is_playing, stt_events, deadline_passed,
                   transcript, audio_output>>

\* select!, third branch: a chunk is received and forwarded with send_audio.
SelectAudio(t) ==
    /\ pc[t] = "select"
    /\ ~is_cancelled(cancel[t])
    /\ ~deadline_passed[t]
    /\ audio_rx[t] > 0
    /\ audio_rx' = [audio_rx EXCEPT ![t] = @ - 1]
    /\ pc' = [pc EXCEPT ![t] = "drain"]
    /\ UNCHANGED nonPipelineVars
    /\ UNCHANGED <<workerFixed, exit, is_playing, stt_events, deadline_passed,
                   transcript, audio_output>>

\* select!, third branch: send_audio fails (WebSocket send error).
SelectAudioFail(t) ==
    /\ pc[t] = "select"
    /\ ~is_cancelled(cancel[t])
    /\ ~deadline_passed[t]
    /\ audio_rx[t] > 0
    /\ stt_provider = "ws"
    /\ audio_rx' = [audio_rx EXCEPT ![t] = @ - 1]
    /\ Return(t, "SttError")
    /\ UNCHANGED nonPipelineVars
    /\ UNCHANGED <<workerFixed, is_playing,
                   transcript, audio_output>>

\* select!, third branch: recv() yields None, the channel is closed and empty.
SelectClosed(t) ==
    /\ pc[t] = "select"
    /\ ~is_cancelled(cancel[t])
    /\ ~deadline_passed[t]
    /\ audio_rx[t] = 0
    /\ ChannelClosed(t)
    /\ Return(t, "ChannelClosed")
    /\ UNCHANGED nonPipelineVars
    /\ UNCHANGED <<workerFixed, is_playing, audio_rx,
                   transcript, audio_output>>

\* recv_event() yields SpeechStart: timer reset; with is_playing set, the
\* empty-audio barge-in signal is sent.
RecvSpeechStart(t) ==
    /\ pc[t] = "drain"
    /\ stt_events[t] # <<>>
    /\ Head(stt_events[t]) = "SpeechStart"
    /\ stt_events' = [stt_events EXCEPT ![t] = Tail(@)]
    /\ deadline_passed' = [deadline_passed EXCEPT ![t] = FALSE]
    /\ audio_output' = IF is_playing[t]
                          THEN Append(audio_output, [user |-> user_id[t], kind |-> "empty"])
                          ELSE audio_output
    /\ UNCHANGED nonPipelineVars
    /\ UNCHANGED <<workerFixed, pc, exit, is_playing, audio_rx, transcript>>

\* recv_event() yields Final with text: UserSpeech is logged and process_text
\* starts (it awaits agent_bridge.generate).
RecvFinal(t) ==
    /\ pc[t] = "drain"
    /\ stt_events[t] # <<>>
    /\ Head(stt_events[t]) = "Final"
    /\ stt_events' = [stt_events EXCEPT ![t] = Tail(@)]
    /\ deadline_passed' = [deadline_passed EXCEPT ![t] = FALSE]
    /\ send_transcript(user_id[t], "UserSpeech")
    /\ pc' = [pc EXCEPT ![t] = "generate"]
    /\ UNCHANGED nonPipelineVars
    /\ UNCHANGED <<workerFixed, exit, is_playing, audio_rx, audio_output>>

\* The Final arm as it would be without the `text.trim().is_empty()` test.
RecvFinalBlank_Processed(t) ==
    /\ pc[t] = "drain"
    /\ stt_events[t] # <<>>
    /\ Head(stt_events[t]) = "FinalBlank"
    /\ stt_events' = [stt_events EXCEPT ![t] = Tail(@)]
    /\ deadline_passed' = [deadline_passed EXCEPT ![t] = FALSE]
    /\ send_transcript(user_id[t], "UserSpeech")
    /\ pc' = [pc EXCEPT ![t] = "generate"]
    /\ UNCHANGED nonPipelineVars
    /\ UNCHANGED <<workerFixed, exit, is_playing, audio_rx, audio_output>>

\* recv_event() yields Final with blank text: timer reset, continue.
RecvFinalBlank(t) ==
    /\ pc[t] = "drain"
    /\ stt_events[t] # <<>>
    /\ Head(stt_events[t]) = "FinalBlank"
    /\ stt_events' = [stt_events EXCEPT ![t] = Tail(@)]
    /\ deadline_passed' = [deadline_passed EXCEPT ![t] = FALSE]
    /\ UNCHANGED nonPipelineVars
    /\ UNCHANGED <<workerFixed, pc, exit, is_playing, audio_rx, transcript,
                   audio_output>>

\* recv_event() yields any other event: debug log only.
RecvOther(t) ==
    /\ pc[t] = "drain"
    /\ stt_events[t] # <<>>
    /\ Head(stt_events[t]) = "Partial"
    /\ stt_events' = [stt_events EXCEPT ![t] = Tail(@)]
    /\ UNCHANGED nonPipelineVars
    /\ UNCHANGED <<workerFixed, pc, exit, is_playing, audio_rx, deadline_passed,
                   transcript, audio_output>>

\* recv_event() yields None: the mock has nothing ready, or the stream ended.
\* The WebSocket session instead stays suspended until a message arrives.
RecvNone(t) ==
    /\ pc[t] = "drain"
    /\ IF stt_events[t] = <<>> THEN stt_provider = "mock"
                             ELSE Head(stt_events[t]) = "Close"
    /\ pc' = [pc EXCEPT ![t] = "select"]
    /\ UNCHANGED nonPipelineVars
    /\ UNCHANGED <<workerFixed, exit, is_playing, audio_rx, stt_events,
                   deadline_passed, transcript, audio_output>>

\* recv_event() yields Err (WebSocket error or unparsable message).
RecvErr(t) ==
    /\ pc[t] = "drain"
    /\ stt_events[t] = <<>>
    /\ stt_provider = "ws"
    /\ Return(t, "SttError")
    /\ UNCHANGED nonPipelineVars
    /\ UNCHANGED <<workerFixed, is_playing, audio_rx,
                   transcript, audio_output>>

\* ------------------------------------------------------------ process_text
\* First select!: the response token is cancelled; return Ok(()) silently.
GenerateCancelled(t) ==
    /\ pc[t] = "generate"
    /\ response_cancelled(t)
    /\ pc' = [pc EXCEPT ![t] = "drain"]
    /\ UNCHANGED nonPipelineVars
    /\ UNCHANGED <<workerFixed, exit, is_playing, audio_rx, stt_events,
                   deadline_passed, transcript, audio_output>>

\* First select!: agent_bridge.generate returns Ok(response).
GenerateOk(t) ==
    /\ pc[t] = "generate"
    /\ ~response_cancelled(t)
    /\ pc' = [pc EXCEPT ![t] = "check_tts"]
    /\ UNCHANGED nonPipelineVars
    /\ UNCHANGED <<workerFixed, exit, is_playing, audio_rx, stt_events,
                   deadline_passed, transcript, audio_output>>

\* First select!: agent_bridge.generate returns Err; `result?` leaves
\* process_text with Err and `process_text(text).await?` leaves run with it.
GenerateErr(t) ==
    /\ pc[t] = "generate"
    /\ ~response_cancelled(t)
    /\ Return(t, "AgentError")
    /\ UNCHANGED nonPipelineVars
    /\ UNCHANGED <<workerFixed, is_playing, audio_rx,
                   transcript, audio_output>>

\* is_cancelled() check before TTS, then is_playing.store(true).
CheckBeforeTts(t) ==
    /\ pc[t] = "check_tts"
    /\ IF response_cancelled(t)
          THEN /\ pc' = [pc EXCEPT ![t] = "drain"]
               /\ UNCHANGED is_playing
          ELSE /\ pc' = [pc EXCEPT ![t] = "tts"]
               /\ is_playing' = [is_playing EXCEPT ![t] = TRUE]
    /\ UNCHANGED nonPipelineVars
    /\ UNCHANGED <<workerFixed, exit, audio_rx, stt_events, deadline_passed,
                   transcript, audio_output>>

\* Second select!: the response token is cancelled; clear the flag and log
\* BotResponseInterrupted.
TtsCancelled(t) ==
    /\ pc[t] = "tts"
    /\ response_cancelled(t)
    /\ is_playing' = [is_playing EXCEPT ![t] = FALSE]
    /\ send_transcript(user_id[t], "BotResponseInterrupted")
    /\ pc' = [pc EXCEPT ![t] = "drain"]
    /\ UNCHANGED nonPipelineVars
    /\ UNCHANGED <<workerFixed, exit, audio_rx, stt_events, deadline_passed,
                   audio_output>>

\* Second select!: tts_provider.synthesize returns Ok(result).
TtsOk(t) ==
    /\ pc[t] = "tts"
    /\ ~response_cancelled(t)
    /\ pc' = [pc EXCEPT ![t] = "check_send"]
    /\ UNCHANGED nonPipelineVars
    /\ UNCHANGED <<workerFixed, exit, is_playing, audio_rx, stt_events,
                   deadline_passed, transcript, audio_output>>

\* Second select!: synthesize returns Err; `result?` propagates it out of
\* process_text and run. The flag is not touched on this path.
TtsErr(t) ==
    /\ pc[t] = "tts"
    /\ ~response_cancelled(t)
    /\ Return(t, "TtsError")
    /\ UNCHANGED nonPipelineVars
    /\ UNCHANGED <<workerFixed, is_playing, audio_rx,
                   transcript, audio_output>>

\* The last part of process_text as it would be if the audio were sent before
\* the is_cancelled() check.
CheckBeforeSend_SendFirst(t) ==
    /\ pc[t] = "check_send"
    /\ IF response_cancelled(t)
          THEN send_transcript(user_id[t], "BotResponseInterrupted")
          ELSE send_transcript(user_id[t], "BotResponse")
    /\ audio_output' = Append(audio_output, [user |-> user_id[t], kind |-> "audio"])
    /\ is_playing' = [is_playing EXCEPT ![t] = FALSE]
    /\ pc' = [pc EXCEPT ![t] = "drain"]
    /\ UNCHANGED nonPipelineVars
    /\ UNCHANGED <<workerFixed, exit, audio_rx, stt_events, deadline_passed>>

\* is_cancelled() check before sending: interrupted, or BotResponse is logged,
\* the audio is sent for playback and the flag is cleared.
CheckBeforeSend(t) ==
    /\ pc[t] = "check_send"
    /\ IF response_cancelled(t)
          THEN /\ send_transcript(user_id[t], "BotResponseInterrupted")
               /\ UNCHANGED audio_output
          ELSE /\ send_transcript(user_id[t], "BotResponse")
               /\ audio_output' = Append(audio_output,
                                         [user |-> user_id[t], kind |-> "audio"])
    /\ is_playing' = [is_playing EXCEPT ![t] = FALSE]
    /\ pc' = [pc EXCEPT ![t] = "drain"]
    /\ UNCHANGED nonPipelineVars
    /\ UNCHANGED <<workerFixed, exit, audio_rx, stt_events, deadline_passed>>

\* The spawned task ends after run() returned: the worker and the receiving
\* half of its audio channel are dropped.
TaskEnd(t) ==
    /\ pc[t] = "returned"
    /\ pc' = [pc EXCEPT ![t] = "done"]
    /\ audio_rx' = [audio_rx EXCEPT ![t] = 0]
    /\ UNCHANGED nonPipelineVars
    /\ UNCHANGED <<workerFixed, exit, is_playing, stt_events,
                   deadline_passed, transcript, audio_output>>

\* One step of the worker task t in which every call it awaits succeeds: a
\* select! branch that is ready, an item of the STT stream that has arrived, the
\* agent or the TTS provider returning Ok.
WorkerProgress(t) ==
    \/ Connect(t)
    \/ SelectCancelled(t) \/ SelectIdle(t) \/ SelectAudio(t) \/ SelectClosed(t)
    \/ RecvSpeechStart(t) \/ RecvFinal(t) \/ RecvFinalBlank(t) \/ RecvOther(t)
    \/ RecvNone(t)
    \/ GenerateCancelled(t) \/ GenerateOk(t)
    \/ CheckBeforeTts(t)
    \/ TtsCancelled(t) \/ TtsOk(t)
    \/ CheckBeforeSend(t)
    \/ TaskEnd(t)

\* One step of the worker task t in which a call it awaits returns Err.
WorkerFault(t) ==
    \/ ConnectFail(t)
    \/ SelectAudioFail(t)
    \/ RecvErr(t)
    \/ GenerateErr(t)
    \/ TtsErr(t)

WorkerStep(t) == WorkerProgress(t) \/ WorkerFault(t)

\* A step of the callers of the dispatcher, of the STT service or of the clock.
Environment ==
    \/ \E u \in Users : dispatch(u)
    \/ \E u \in Users : handle_interrupt(u)
    \/ DropDispatcher
    \/ \E t \in Tasks, e \in StreamItem : SttEmit(t, e)
    \/ \E t \in Tasks : IdleDeadline(t)

Next ==
    \/ Environment
    \/ \E t \in Tasks : WorkerStep(t)

Spec == Init /\ [][Next]_vars

\* The same system when no provider ever fails.
NextNoFault ==
    \/ Environment
    \/ \E t \in Tasks : WorkerProgress(t)

\* The workers are tasks on the tokio scheduler: a step that stays possible is
\* eventually taken, and a call to the agent or the TTS provider returns. The
\* callers of the dispatcher, the STT service and the clock owe nothing.
FairNoFaultSpec ==
    Init /\ [][NextNoFault]_vars /\ \A t \in Tasks : WF_vars(WorkerProgress(t))

TypeOK ==
    /\ \A u \in Users : workers[u] = NoHandle
                        \/ (workers[u].task \in Tasks /\ workers[u].cancel \in Tokens)
    /\ cancelled \subseteq Tokens
    /\ \A t \in Tasks : audio_rx[t] \in 0..MaxQueue
    /\ \A t \in Tasks : exit[t] \in {"none"} \cup WorkerExitReason \cup WorkerError
    /\ \A t \in Tasks : \A i \in 1..Len(stt_events[t]) : stt_events[t][i] \in StreamItem

\* ------------------------------------------------------------ VoiceGateway
\* The pipeline as it stands while another component is exercised.
PipelineIdle == PipelineInit /\ interrupt_enabled /\ stt_provider = "ws"

\* The gateway's four maps as one value.
gateway ==
    [connection_states |-> connection_states,
     pending_voice_states |-> pending_voice_states,
     pending_voice_servers |-> pending_voice_servers,
     calls |-> calls]

\* transition()'s match as it would be with one more arm accepting Connected
\* from Disconnected.
valid_AllowConnected(current, new_state) ==
    \/ current = "Disconnected" /\ new_state = "Connecting"
    \/ current = "Disconnected" /\ new_state = "Connected"
    \/ current = "Connecting" /\ new_state = "Connected"
    \/ current = "Connecting" /\ new_state = "Disconnected"
    \/ current = "Connected" /\ new_state = "Disconnected"
    \/ current = "Connected" /\ new_state = "Reconnecting"
    \/ current = "Reconnecting" /\ new_state = "Connected"
    \/ current = "Reconnecting" /\ new_state = "Disconnected"

\* transition(): the match on (current, new_state) that computes `valid`.
valid(current, new_state) ==
    \/ current = "Disconnected" /\ new_state = "Connecting"
    \/ current = "Connecting" /\ new_state = "Connected"
    \/ current = "Connecting" /\ new_state = "Disconnected"
    \/ current = "Connected" /\ new_state = "Disconnected"
    \/ current = "Connected" /\ new_state = "Reconnecting"
    \/ current = "Reconnecting" /\ new_state = "Connected"
    \/ current = "Reconnecting" /\ new_state = "Disconnected"

\* transition(): bail when the match says invalid, else insert new_state.
transition(gw, g, new_state) ==
    IF valid(gw.connection_states[g], new_state)
    THEN [ok |-> TRUE, gw |-> [gw EXCEPT !.connection_states[g] = new_state]]
    ELSE [ok |-> FALSE, gw |-> gw]

\* What try_connect did: the gateway it leaves, the number of call.connect
\* calls it made, the transition it asked for and whether that was accepted.
NoAttempt(gw) == [gw |-> gw, attempts |-> 0, to |-> "None", accepted |-> TRUE]

\* try_connect() as it would be if it read the server entry and left it in
\* the map.
try_connect_KeepServer(gw, g, connect_ok) ==
    IF g \notin gw.pending_voice_states THEN NoAttempt(gw)
    ELSE IF g \notin gw.pending_voice_servers THEN NoAttempt(gw)
    ELSE LET taken == [gw EXCEPT !.pending_voice_states = @ \ {g}]
             called == [taken EXCEPT !.calls = @ \cup {g}]
             t == transition(called, g, IF connect_ok THEN "Connected" ELSE "Disconnected")
         IN  [gw |-> IF connect_ok THEN t.gw ELSE [t.gw EXCEPT !.calls = @ \ {g}],
              attempts |-> 1,
              to |-> IF connect_ok THEN "Connected" ELSE "Disconnected",
              accepted |-> t.ok]

\* try_connect(): take both pending entries (putting the state entry back when
\* the server entry is missing), create or get the Call, connect; on Ok ask for
\* Connected, on Err ask for Disconnected and remove the Call. state.channel_id
\* is Some for every stored entry and the ids are not zero, so those early
\* returns are never taken.
try_connect(gw, g, connect_ok) ==
    IF g \notin gw.pending_voice_states THEN NoAttempt(gw)
    ELSE IF g \notin gw.pending_voice_servers THEN NoAttempt(gw)
    ELSE LET taken == [gw EXCEPT !.pending_voice_states = @ \ {g},
                                 !.pending_voice_servers = @ \ {g}]
             called == [taken EXCEPT !.calls = @ \cup {g}]
             t == transition(called, g, IF connect_ok THEN "Connected" ELSE "Disconnected")
         IN  [gw |-> IF connect_ok THEN t.gw ELSE [t.gw EXCEPT !.calls = @ \ {g}],
              attempts |-> 1,
              to |-> IF connect_ok THEN "Connected" ELSE "Disconnected",
              accepted |-> t.ok]

\* The handler leaves the gateway as gw and the record of the operation as op.
GatewayBecomes(gw, op) ==
    /\ connection_states' = gw.connection_states
    /\ pending_voice_states' = gw.pending_voice_states
    /\ pending_voice_servers' = gw.pending_voice_servers
    /\ calls' = gw.calls
    /\ gw_last' = op
    /\ UNCHANGED <<pipelineVars, playbackVars, ttsVars, cacheVars, helperVars>>

\* join(): transition to Connecting (`?`), then send op=4 on gateway_tx (`?`).
join(g, send_ok) ==
    LET t == transition(gateway, g, "Connecting")
    IN  /\ GatewayBecomes(t.gw,
            [op |-> "join", guild |-> g, half |-> "none",
             from |-> connection_states[g], to |-> "Connecting", accepted |-> t.ok,
             result |-> IF t.ok /\ send_ok THEN "Ok" ELSE "Err", attempts |-> 0])

\* leave(): remove and leave the Call, transition to Disconnected (`?`), then
\* remove both pending entries.
leave(g) ==
    LET removed == [gateway EXCEPT !.calls = @ \ {g}]
        t == transition(removed, g, "Disconnected")
        cleaned == [t.gw EXCEPT !.pending_voice_states = @ \ {g},
                                !.pending_voice_servers = @ \ {g}]
    IN  /\ GatewayBecomes(IF t.ok THEN cleaned ELSE t.gw,
            [op |-> "leave", guild |-> g, half |-> "none",
             from |-> connection_states[g], to |-> "Disconnected", accepted |-> t.ok,
             result |-> IF t.ok THEN "Ok" ELSE "Err", attempts |-> 0])

\* handle_voice_state_update(): an update for another user is ignored.
VoiceStateOtherUser(g) ==
    /\ GatewayBecomes(gateway,
        [op |-> "voice_state", guild |-> g, half |-> "none",
         from |-> connection_states[g], to |-> "None", accepted |-> TRUE,
         result |-> "Ok", attempts |-> 0])

\* handle_voice_state_update(): channel_id is None, the bot was disconnected:
\* ask for Disconnected (the result is dropped), remove both pending entries
\* and the Call.
VoiceStateDisconnected(g) ==
    LET t == transition(gateway, g, "Disconnected")
        cleaned == [t.gw EXCEPT !.pending_voice_states = @ \ {g},
                                !.pending_voice_servers = @ \ {g},
                                !.calls = @ \ {g}]
    IN  /\ GatewayBecomes(cleaned,
            [op |-> "voice_state", guild |-> g, half |-> "none",
             from |-> connection_states[g], to |-> "Disconnected", accepted |-> t.ok,
             result |-> "Ok", attempts |-> 0])

\* handle_voice_state_update(): the bot's own update with a channel: store the
\* session and, if the server entry is there, try_connect.
VoiceStateStored(g, connect_ok) ==
    LET stored == [gateway EXCEPT !.pending_voice_states = @ \cup {g}]
        c == IF g \in stored.pending_voice_servers
             THEN try_connect(stored, g, connect_ok)
             ELSE NoAttempt(stored)
    IN  /\ GatewayBecomes(c.gw,
            [op |-> "voice_state", guild |-> g, half |-> "state",
             from |-> connection_states[g], to |-> c.to, accepted |-> c.accepted,
             result |-> "Ok", attempts |-> c.attempts])

handle_voice_state_update(g) ==
    \/ VoiceStateOtherUser(g)
    \/ VoiceStateDisconnected(g)
    \/ \E connect_ok \in BOOLEAN : VoiceStateStored(g, connect_ok)

\* handle_voice_server_update(): store endpoint and token and, if the state
\* entry is there, try_connect.
handle_voice_server_update(g, connect_ok) ==
    LET stored == [gateway EXCEPT !.pending_voice_servers = @ \cup {g}]
        c == IF g \in stored.pending_voice_states
             THEN try_connect(stored, g, connect_ok)
             ELSE NoAttempt(stored)
    IN  /\ GatewayBecomes(c.gw,
            [op |-> "voice_server", guild |-> g, half |-> "server",
             from |-> connection_states[g], to |-> c.to, accepted |-> c.accepted,
             result |-> "Ok", attempts |-> c.attempts])

\* shutdown(): leave every Call and clear the four maps.
shutdown ==
    /\ GatewayBecomes([connection_states |-> [g \in Guilds |-> "Disconnected"],
                    pending_voice_states |-> {},
                    pending_voice_servers |-> {},
                    calls |-> {}],
        [op |-> "shutdown", guild |-> 0, half |-> "none",
         from |-> "Disconnected", to |-> "None", accepted |-> TRUE,
         result |-> "Ok", attempts |-> 0])

\* The callers of the gateway (VoiceManager) call its operations one at a time.
GatewayNext ==
    \/ \E g \in Guilds, send_ok \in BOOLEAN : join(g, send_ok)
    \/ \E g \in Guilds : leave(g)
    \/ \E g \in Guilds : handle_voice_state_update(g)
    \/ \E g \in Guilds, connect_ok \in BOOLEAN : handle_voice_server_update(g, connect_ok)
    \/ shutdown

GatewayInit ==
    PipelineIdle /\ GatewayNew /\ PlaybackNew /\ TtsIdle /\ CacheIdle /\ HelperIdle

GatewaySpec == GatewayInit /\ [][GatewayNext]_vars

\* The gateway while calls and events keep coming: some operation that changes
\* something is always run again. Which guild it is for is left open.
GatewayFairSpec == GatewaySpec /\ WF_vars(GatewayNext)

\* ------------------------------------------------------------ SequencedPlaybackQueue
\* The segment indices the callers submit.
Indices == 0..MaxIndex

\* The queue and its channel as one value.
queue ==
    [next_index |-> next_index, buffer |-> buffer, total_segments |-> total_segments,
     rx |-> rx, receiver_alive |-> receiver_alive, tx_open |-> tx_open,
     delivered |-> delivered,
     resets |-> resets]

\* maybe_close(): logs when every expected segment has been emitted; it
\* changes no field and drops no sender.
maybe_close(q) == q

\* The drain as it would be with `if let` in place of `while let`: at most one
\* buffered successor is sent.
drain_Once(q) ==
    IF \E s \in q.buffer : s.index = q.next_index
    THEN LET next_seg == CHOOSE s \in q.buffer : s.index = q.next_index
         IN  [q EXCEPT !.buffer = @ \ {next_seg},
                       !.delivered = Append(@, next_seg),
                       !.next_index = @ + 1]
    ELSE q

\* submit(): the `while let Some(next_seg) = self.buffer.remove(&self.next_index)`
\* loop; the receiver was there for the send before it, and is for these.
RECURSIVE drain(_)
drain(q) ==
    IF \E s \in q.buffer : s.index = q.next_index
    THEN LET next_seg == CHOOSE s \in q.buffer : s.index = q.next_index
         IN  drain([q EXCEPT !.buffer = @ \ {next_seg},
                             !.delivered = Append(@, next_seg),
                             !.next_index = @ + 1])
    ELSE q

\* HashMap::insert: the value stored under the key is replaced.
buffer_insert(b, seg) == {s \in b : s.index # seg.index} \cup {seg}

\* submit() as it would be with `<=` in place of `==`: a segment whose index
\* has already been played is sent again.
submit_SendStale(q, seg) ==
    IF seg.index <= q.next_index
    THEN IF ~q.receiver_alive
         THEN q
         ELSE maybe_close(drain([q EXCEPT !.delivered = Append(@, seg),
                                          !.next_index = @ + 1]))
    ELSE [q EXCEPT !.buffer = buffer_insert(@, seg)]

\* submit(): a segment with the expected index is sent (return if the
\* receiver is gone), then the buffered successors are drained; any other
\* segment goes into the buffer.
submit(q, seg) ==
    IF seg.index = q.next_index
    THEN IF ~q.receiver_alive
         THEN q
         ELSE maybe_close(drain([q EXCEPT !.delivered = Append(@, seg),
                                          !.next_index = @ + 1]))
    ELSE [q EXCEPT !.buffer = buffer_insert(@, seg)]

\* reset() as it would be without self.buffer.clear().
reset_KeepBuffer(q) ==
    [q EXCEPT !.next_index = 0, !.total_segments = <<>>, !.rx = "Some",
              !.receiver_alive = TRUE, !.delivered = <<>>, !.resets = @ + 1]

\* reset(): next_index 0, buffer cleared, no total, and a new channel whose
\* receiver the queue holds.
reset(q) ==
    [q EXCEPT !.next_index = 0, !.buffer = {}, !.total_segments = <<>>,
              !.rx = "Some", !.receiver_alive = TRUE, !.delivered = <<>>,
              !.resets = @ + 1]

\* The operation leaves the queue as q and the record of the operation as op.
QueueBecomes(q, op) ==
    /\ next_index' = q.next_index
    /\ buffer' = q.buffer
    /\ total_segments' = q.total_segments
    /\ rx' = q.rx
    /\ receiver_alive' = q.receiver_alive
    /\ tx_open' = q.tx_open
    /\ delivered' = q.delivered
    /\ resets' = q.resets
    /\ pq_last' = op

\* The record of the submits once a segment with index i has been submitted.
record_submit(i) ==
    [indices |-> submitted.indices \cup {i},
     distinct |-> submitted.distinct /\ i \notin submitted.indices]

\* A caller submits a segment of the current response with index i.
Submit(i) ==
    /\ tx_open
    /\ submitted' = record_submit(i)
    /\ QueueBecomes(submit(queue, [index |-> i, response |-> resets]),
                    [op |-> "submit", index |-> i, returned |-> "None"])
    /\ UNCHANGED <<pipelineVars, gatewayVars, ttsVars, cacheVars, helperVars>>

\* set_total(total).
SetTotal(total) ==
    /\ tx_open
    /\ UNCHANGED submitted
    /\ QueueBecomes([queue EXCEPT !.total_segments = <<total>>],
                    [op |-> "set_total", index |-> total, returned |-> "None"])
    /\ UNCHANGED <<pipelineVars, gatewayVars, ttsVars, cacheVars, helperVars>>

\* take_rx(): self.rx.take().
TakeRx ==
    /\ tx_open
    /\ UNCHANGED submitted
    /\ QueueBecomes([queue EXCEPT !.rx = "None"],
                    [op |-> "take_rx", index |-> 0, returned |-> rx])
    /\ UNCHANGED <<pipelineVars, gatewayVars, ttsVars, cacheVars, helperVars>>

\* reset(), for the next response.
Reset ==
    /\ tx_open
    /\ resets < MaxResets
    /\ submitted' = [indices |-> {}, distinct |-> TRUE]
    /\ QueueBecomes(reset(queue), [op |-> "reset", index |-> 0, returned |-> "None"])
    /\ UNCHANGED <<pipelineVars, gatewayVars, ttsVars, cacheVars, helperVars>>

\* The consumer drops the receiver it took.
DropReceiver ==
    /\ rx = "None"
    /\ receiver_alive
    /\ UNCHANGED submitted
    /\ QueueBecomes([queue EXCEPT !.receiver_alive = FALSE],
                    [op |-> "drop_rx", index |-> 0, returned |-> "None"])
    /\ UNCHANGED <<pipelineVars, gatewayVars, ttsVars, cacheVars, helperVars>>

\* The SequencedPlaybackQueue is dropped, and the sender it holds with it.
DropQueue ==
    /\ tx_open
    /\ UNCHANGED submitted
    /\ QueueBecomes([queue EXCEPT !.tx_open = FALSE],
                    [op |-> "drop", index |-> 0, returned |-> "None"])
    /\ UNCHANGED <<pipelineVars, gatewayVars, ttsVars, cacheVars, helperVars>>

PlaybackNext ==
    \/ \E i \in Indices : Submit(i)
    \/ \E total \in 0..(MaxIndex + 1) : SetTotal(total)
    \/ TakeRx
    \/ Reset
    \/ DropReceiver
    \/ DropQueue

PlaybackInit ==
    PipelineIdle /\ GatewayNew /\ PlaybackNew /\ TtsIdle /\ CacheIdle /\ HelperIdle

PlaybackSpec == PlaybackInit /\ [][PlaybackNext]_vars

\* ------------------------------------------------------------ TtsPipeline
\* The input streams: up to MaxSegments items, each a sentence or an error.
StreamKinds == UNION {[1..n -> {"Seg", "Err"}] : n \in 0..MaxSegments}

\* The stream the splitter produces for these kinds: the k-th item, when it is
\* a sentence, carries as index the number of sentences before it and a text
\* of its own (named by its position).
StreamOf(kinds) ==
    [k \in 1..Len(kinds) |->
        [kind |-> kinds[k],
         index |-> Cardinality({j \in 1..(k - 1) : kinds[j] = "Seg"}),
         text |-> k]]

\* The synthesis tasks that have been spawned and have not finished.
InFlight == {t \in DOMAIN synth : synth[t].pc # "done"}

\* Every sender of the output channel has been dropped: the outer task has
\* ended and so has every synthesis task.
SendersDropped == feeder = "done" /\ InFlight = {}

\* What no step of the outer task or of a synthesis task changes.
ttsFixed == <<pipelineVars, gatewayVars, playbackVars, cacheVars, helperVars,
              max_concurrent, sentence_stream, received, rx_ended>>

\* process(): stream.next() yields an item; an Err is to be forwarded, for a
\* sentence a permit is to be acquired.
FeederNext ==
    /\ feeder = "next"
    /\ consumed < Len(sentence_stream)
    /\ consumed' = consumed + 1
    /\ feeder' = IF sentence_stream[consumed + 1].kind = "Seg" THEN "acquire"
                                                               ELSE "send_err"
    /\ UNCHANGED <<ttsFixed, permits, synth, out_channel>>

\* process(): tx.send(Err(e)).await completes once the channel has room.
FeederSendErr ==
    /\ feeder = "send_err"
    /\ Len(out_channel) < ChannelCapacity
    /\ out_channel' = Append(out_channel,
                             [kind |-> "StreamErr", index |-> 0, text |-> consumed])
    /\ feeder' = "next"
    /\ UNCHANGED <<ttsFixed, consumed, permits, synth>>

\* process() as it would be if the synthesis task were spawned without
\* acquiring a permit.
FeederSpawn_NoPermit ==
    /\ feeder = "acquire"
    /\ synth' = Append(synth, [seg |-> sentence_stream[consumed],
                               pc |-> "synthesize", permit |-> FALSE,
                               item |-> "none"])
    /\ feeder' = "next"
    /\ UNCHANGED <<ttsFixed, consumed, permits, out_channel>>

\* process(): acquire_owned().await returns a permit and the synthesis task is
\* spawned with it.
FeederSpawn ==
    /\ feeder = "acquire"
    /\ permits > 0
    /\ permits' = permits - 1
    /\ synth' = Append(synth, [seg |-> sentence_stream[consumed],
                               pc |-> "synthesize", permit |-> TRUE,
                               item |-> "none"])
    /\ feeder' = "next"
    /\ UNCHANGED <<ttsFixed, consumed, out_channel>>

\* process(): stream.next() yields None; the outer task ends and drops tx.
FeederEnd ==
    /\ feeder = "next"
    /\ consumed = Len(sentence_stream)
    /\ feeder' = "done"
    /\ UNCHANGED <<ttsFixed, consumed, permits, synth, out_channel>>

\* The synthesis task: synthesize() returns Ok; the TtsSegment takes index and
\* text from the sentence.
SynthOk(t) ==
    /\ t \in DOMAIN synth
    /\ synth[t].pc = "synthesize"
    /\ synth' = [synth EXCEPT ![t].pc = "send",
                              ![t].item = [kind |-> "Ok", index |-> synth[t].seg.index,
                                           text |-> synth[t].seg.text]]
    /\ UNCHANGED <<ttsFixed, consumed, permits, feeder, out_channel>>

\* The synthesis task: synthesize() returns Err; the error to send names the
\* segment's index in its message.
SynthErr(t) ==
    /\ t \in DOMAIN synth
    /\ synth[t].pc = "synthesize"
    /\ synth' = [synth EXCEPT ![t].pc = "send",
                              ![t].item = [kind |-> "Err", index |-> synth[t].seg.index,
                                           text |-> synth[t].seg.text]]
    /\ UNCHANGED <<ttsFixed, consumed, permits, feeder, out_channel>>

\* The synthesis task as it would be if the Err arm only logged: an Ok is
\* sent, an Err is not; the task ends and its permit is released.
SynthSend_OkOnly(t) ==
    /\ t \in DOMAIN synth
    /\ synth[t].pc = "send"
    /\ synth[t].item.kind = "Ok" => Len(out_channel) < ChannelCapacity
    /\ out_channel' = IF synth[t].item.kind = "Ok"
                      THEN Append(out_channel, synth[t].item) ELSE out_channel
    /\ synth' = [synth EXCEPT ![t].pc = "done"]
    /\ permits' = IF synth[t].permit THEN permits + 1 ELSE permits
    /\ UNCHANGED <<ttsFixed, consumed, feeder>>

\* The synthesis task: tx_clone.send(..).await completes once the channel has
\* room; the task ends, dropping its sender and its permit.
SynthSend(t) ==
    /\ t \in DOMAIN synth
    /\ synth[t].pc = "send"
    /\ Len(out_channel) < ChannelCapacity
    /\ out_channel' = Append(out_channel, synth[t].item)
    /\ synth' = [synth EXCEPT ![t].pc = "done"]
    /\ permits' = IF synth[t].permit THEN permits + 1 ELSE permits
    /\ UNCHANGED <<ttsFixed, consumed, feeder>>

\* What follows the pipeline: each TtsSegment is submitted to the playback
\* queue, an error is skipped.
forward(q, item) ==
    IF item.kind = "Ok" THEN submit(q, [index |-> item.index, response |-> q.resets])
                        ELSE q

\* The consumer: rx.recv().await yields the next item, which is forwarded.
ConsumerRecv ==
    /\ out_channel # <<>>
    /\ received' = Append(received, Head(out_channel))
    /\ out_channel' = Tail(out_channel)
    /\ QueueBecomes(forward(queue, Head(out_channel)), pq_last)
    /\ submitted' = IF Head(out_channel).kind = "Ok"
                        THEN record_submit(Head(out_channel).index)
                        ELSE submitted
    /\ UNCHANGED <<pipelineVars, gatewayVars, cacheVars, helperVars, max_concurrent,
                   sentence_stream, consumed, permits, feeder, synth, rx_ended>>

\* The consumer: rx.recv().await yields None, the channel being empty and
\* every sender dropped.
ConsumerEnd ==
    /\ out_channel = <<>>
    /\ SendersDropped
    /\ ~rx_ended
    /\ rx_ended' = TRUE
    /\ UNCHANGED <<pipelineVars, gatewayVars, playbackVars, cacheVars, helperVars,
                   max_concurrent, sentence_stream, consumed, permits, feeder,
                   synth, out_channel, received>>

Feeder == FeederNext \/ FeederSendErr \/ FeederSpawn \/ FeederEnd
SynthTask(t) == SynthOk(t) \/ SynthErr(t) \/ SynthSend(t)
Consumer == ConsumerRecv \/ ConsumerEnd

TtsNext ==
    \/ Feeder
    \/ \E t \in 1..MaxSegments : SynthTask(t)
    \/ Consumer

TtsInit ==
    /\ PipelineIdle /\ GatewayNew /\ PlaybackNew /\ CacheIdle /\ HelperIdle
    /\ \E limit \in 0..MaxConcurrent, kinds \in StreamKinds :
          TtsNew(limit, StreamOf(kinds))

TtsSpec == TtsInit /\ [][TtsNext]_vars

\* The outer task and the synthesis tasks are tasks on the tokio scheduler, a
\* call to the provider returns, and the receiver keeps reading.
TtsFairSpec ==
    /\ TtsInit /\ [][TtsNext]_vars
    /\ WF_vars(Feeder)
    /\ \A t \in 1..MaxSegments : WF_vars(SynthTask(t))
    /\ WF_vars(Consumer)

\* ------------------------------------------------------------ TtsCache
\* Parameter tuples (text, model, speed, style, speaker, pitch) that differ
\* from one another, with finite speed and pitch.
Params == 1..NumParams

\* The audio a caller stores: up to MaxAudioLen bytes.
AudioData == UNION {[1..n -> {b}] : n \in 0..MaxAudioLen, b \in {0, 1}}

\* What insert() is given besides the parameters, and what lookup() returns
\* on a hit (CachedAudio).
CachedAudio == [audio_data : AudioData, audio_format : {"raw"}, duration_ms : {40}]

\* generate_cache_key(): the SHA-256 of the canonical JSON of the tuple, taken
\* as free of collisions: tuples that differ get keys that differ.
generate_cache_key(p) == <<"sha256", p>>

\* The rows of the table whose cache_key is the key of p (the column is UNIQUE).
RowsFor(r, p) == {row \in r : row.cache_key = generate_cache_key(p)}

\* The CachedAudio a row holds.
Entry(row) == [audio_data |-> row.audio_data, audio_format |-> row.audio_format,
               duration_ms |-> row.duration_ms]

\* SELECT COALESCE(MAX(access_seq), 0) FROM tts_cache.
max_access_seq(r) ==
    IF r = {} THEN 0
    ELSE LET top == CHOOSE row \in r : \A other \in r : other.access_seq <= row.access_seq
         IN  top.access_seq

\* total_size_bytes(): SELECT COALESCE(SUM(length(audio_data)), 0).
RECURSIVE total_size_bytes(_)
total_size_bytes(r) ==
    IF r = {} THEN 0
    ELSE LET row == CHOOSE x \in r : TRUE
         IN  Len(row.audio_data) + total_size_bytes(r \ {row})

\* entry_count(): SELECT COUNT(*).
entry_count(r) == Cardinality(r)

\* evict_if_needed(): while the total exceeds the limit, delete the row that
\* comes first in ORDER BY access_seq ASC; stop when no row is left.
RECURSIVE evict_if_needed(_, _)
evict_if_needed(r, limit) ==
    IF total_size_bytes(r) <= limit \/ r = {} THEN r
    ELSE LET victim == CHOOSE row \in r :
                          \A other \in r : row.access_seq <= other.access_seq
         IN  evict_if_needed(r \ {victim}, limit)

\* The row INSERT OR REPLACE writes: access_seq is MAX(access_seq) + 1 over the
\* table as it is before the statement.
NewRow(r, p, a) ==
    [cache_key |-> generate_cache_key(p), audio_data |-> a.audio_data,
     audio_format |-> a.audio_format, duration_ms |-> a.duration_ms,
     access_seq |-> max_access_seq(r) + 1]

\* insert() as it would be without the call of evict_if_needed.
insert_NoEvict(r, limit, p, a) == (r \ RowsFor(r, p)) \cup {NewRow(r, p, a)}

\* insert() as it would be with INSERT OR IGNORE: a row that is there stays.
insert_OrIgnore(r, limit, p, a) ==
    evict_if_needed(IF RowsFor(r, p) = {} THEN r \cup {NewRow(r, p, a)} ELSE r, limit)

\* insert(): INSERT OR REPLACE (the row with the same cache_key is deleted and
\* the new one inserted), then evict_if_needed.
insert(r, limit, p, a) ==
    evict_if_needed((r \ RowsFor(r, p)) \cup {NewRow(r, p, a)}, limit)

\* lookup() as it would be without the UPDATE of the row it hits.
lookup_NoTouch(r, p) == r

\* lookup(): on a hit the row's access_seq becomes MAX(access_seq) + 1.
lookup(r, p) ==
    {IF row \in RowsFor(r, p) THEN [row EXCEPT !.access_seq = max_access_seq(r) + 1]
                              ELSE row : row \in r}

\* What lookup() returns: Some(CachedAudio) on a hit, None on a miss.
lookup_result(r, p) ==
    IF RowsFor(r, p) = {} THEN "None"
    ELSE Entry(CHOOSE row \in RowsFor(r, p) : TRUE)

cacheFrame == <<pipelineVars, gatewayVars, playbackVars, ttsVars, helperVars,
               max_total_bytes>>

\* A caller inserts audio for the parameters p.
Insert(p, a) ==
    /\ max_access_seq(rows) < MaxAccessSeq
    /\ rows' = insert(rows, max_total_bytes, p, a)
    /\ cache_last' = [op |-> "insert", params |-> p, given |-> a, returned |-> "None",
                      count_before |-> entry_count(rows),
                      present_before |-> RowsFor(rows, p) # {}]
    /\ UNCHANGED cacheFrame

\* A caller looks the parameters p up.
Lookup(p) ==
    /\ max_access_seq(rows) < MaxAccessSeq
    /\ rows' = lookup(rows, p)
    /\ cache_last' = [op |-> "lookup", params |-> p, given |-> "None",
                      returned |-> lookup_result(rows, p),
                      count_before |-> entry_count(rows),
                      present_before |-> RowsFor(rows, p) # {}]
    /\ UNCHANGED cacheFrame

\* clear(): DELETE FROM tts_cache.
Clear ==
    /\ rows' = {}
    /\ cache_last' = [op |-> "clear", params |-> 0, given |-> "None", returned |-> "None",
                      count_before |-> entry_count(rows), present_before |-> FALSE]
    /\ UNCHANGED cacheFrame

CacheNext ==
    \/ \E p \in Params, a \in CachedAudio : Insert(p, a)
    \/ \E p \in Params : Lookup(p)
    \/ Clear

CacheInit ==
    /\ PipelineIdle /\ GatewayNew /\ PlaybackNew /\ TtsIdle /\ HelperIdle
    /\ \E limit \in 0..MaxLimit : CacheNew(limit)

CacheSpec == CacheInit /\ [][CacheNext]_vars

\* ------------------------------------------------------------ SentenceSplitter
\* Strings are sequences of characters. The characters of the model are a
\* letter, a sentence delimiter, a space and a newline, all of one byte, so
\* that String::len (a count of bytes) is the length of the sequence.
Chars == {"a", "!", " ", "\n"}

\* SENTENCE_DELIMITERS, of which the model keeps the ASCII '!'.
SENTENCE_DELIMITERS == {"!"}

\* The tokens of at most k characters a stream can yield.
TokenTexts(k) == UNION {[1..n -> Chars] : n \in 1..k}

\* str::trim(): the string without its leading and trailing whitespace.
RECURSIVE trim(_)
trim(s) ==
    IF s = <<>> THEN s
    ELSE IF Head(s) \in {" ", "\n"} THEN trim(Tail(s))
    ELSE IF s[Len(s)] \in {" ", "\n"} THEN trim(SubSeq(s, 1, Len(s) - 1))
    ELSE s

\* What a split task holds between two tokens.
splitter == [buffer |-> split_buffer, seq |-> seq, out |-> sentences]

\* tx.send(Ok(SentenceSegment { index: seq, text })) followed by seq += 1, the
\* buffer becoming rest.
emit(st, text, rest) ==
    [buffer |-> rest, seq |-> st.seq + 1,
     out |-> Append(st.out, [kind |-> "Ok", index |-> st.seq, text |-> text])]

\* The loop "Split on punctuation delimiters": cut the buffer after its first
\* delimiter; emit the trimmed cut when it is long enough, else put it back at
\* the front of the buffer and leave the loop.
RECURSIVE split_punctuation(_, _)
split_punctuation(st, min_len) ==
    LET hits == {i \in 1..Len(st.buffer) : st.buffer[i] \in SENTENCE_DELIMITERS}
    IN  IF hits = {} THEN st
        ELSE LET pos == CHOOSE i \in hits : \A j \in hits : i <= j
                 trimmed == trim(SubSeq(st.buffer, 1, pos))
                 rest == SubSeq(st.buffer, pos + 1, Len(st.buffer))
             IN  IF Len(trimmed) >= min_len
                 THEN split_punctuation(emit(st, trimmed, rest), min_len)
                 ELSE IF trimmed # <<>>
                 THEN [st EXCEPT !.buffer = trimmed \o rest]
                 ELSE split_punctuation([st EXCEPT !.buffer = rest], min_len)

\* The paragraph loop as it would be if a short paragraph were dropped.
RECURSIVE split_paragraphs_DropShort(_, _)
split_paragraphs_DropShort(st, min_len) ==
    LET hits == {i \in 1..(Len(st.buffer) - 1) :
                    st.buffer[i] = "\n" /\ st.buffer[i + 1] = "\n"}
    IN  IF hits = {} THEN st
        ELSE LET pos == CHOOSE i \in hits : \A j \in hits : i <= j
                 sentence == trim(SubSeq(st.buffer, 1, pos - 1))
                 rest == SubSeq(st.buffer, pos + 2, Len(st.buffer))
             IN  IF Len(sentence) >= min_len
                 THEN split_paragraphs_DropShort(emit(st, sentence, rest), min_len)
                 ELSE split_paragraphs_DropShort([st EXCEPT !.buffer = rest], min_len)

\* The loop "Split on paragraph break": while the buffer contains "\n\n",
\* splitn(2, "\n\n") it; emit the trimmed first part when it is long enough,
\* else, when it is not empty, put it back followed by a space.
RECURSIVE split_paragraphs(_, _)
split_paragraphs(st, min_len) ==
    LET hits == {i \in 1..(Len(st.buffer) - 1) :
                    st.buffer[i] = "\n" /\ st.buffer[i + 1] = "\n"}
    IN  IF hits = {} THEN st
        ELSE LET pos == CHOOSE i \in hits : \A j \in hits : i <= j
                 sentence == trim(SubSeq(st.buffer, 1, pos - 1))
                 rest == SubSeq(st.buffer, pos + 2, Len(st.buffer))
             IN  IF Len(sentence) >= min_len
                 THEN split_paragraphs(emit(st, sentence, rest), min_len)
                 ELSE IF sentence # <<>>
                 THEN split_paragraphs([st EXCEPT !.buffer = sentence \o <<" ">> \o rest],
                                       min_len)
                 ELSE split_paragraphs([st EXCEPT !.buffer = rest], min_len)

\* The task's state becomes st.
SplitBecomes(st, task) ==
    /\ split_buffer' = st.buffer
    /\ seq' = st.seq
    /\ sentences' = st.out
    /\ split_task' = task
    /\ UNCHANGED <<coreVars, min_length, ssrcVars, textQueueVars, gateVars, retryVars, handshakeVars>>

\* stream.next() yields Ok(token): the token is pushed on the buffer and the
\* two loops run. The receiver keeps reading, so that no send fails.
TokenOk(token) ==
    /\ split_task = "running"
    /\ Len(input) + Len(token) <= MaxInputLen
    /\ input' = input \o token
    /\ SplitBecomes(split_paragraphs(
                        split_punctuation([splitter EXCEPT !.buffer = @ \o token],
                                          min_length),
                        min_length), "running")

\* stream.next() yields Err(e): the error is sent and the task returns
\* without flushing the buffer.
TokenErr ==
    /\ split_task = "running"
    /\ SplitBecomes([splitter EXCEPT
                        !.out = Append(@, [kind |-> "Err", index |-> 0, text |-> <<>>])],
                    "returned")
    /\ UNCHANGED input

\* stream.next() yields None: "Flush remaining buffer", then the task ends.
StreamEnd ==
    /\ split_task = "running"
    /\ LET remaining == trim(split_buffer)
       IN  SplitBecomes(IF remaining # <<>> THEN emit(splitter, remaining, split_buffer)
                                            ELSE splitter, "returned")
    /\ UNCHANGED input

SplitNext ==
    \/ \E token \in TokenTexts(MaxInputLen) : TokenOk(token)
    \/ TokenErr
    \/ StreamEnd

SplitInit ==
    /\ PipelineIdle /\ GatewayNew /\ PlaybackNew /\ TtsIdle /\ CacheIdle
    /\ SsrcNew /\ TextQueueNew /\ GateNew
    /\ RetryNew(DEFAULT_MAX_RECONNECT_ATTEMPTS, 0)
    /\ HandshakeNew([h \in 1..NumHandlers |-> "state"])
    /\ \E min_len \in 0..MaxMinLength : SplitNew(min_len)

SplitSpec == SplitInit /\ [][SplitNext]_vars

\* ------------------------------------------------------------ SsrcUserMap
\* Every component as constructed: where the specifications of the SSRC map,
\* the text message queue and the turn gate start.
AllNew == PipelineIdle /\ GatewayNew /\ PlaybackNew /\ TtsIdle /\ CacheIdle /\ HelperIdle

Ssrcs == 1..NumSsrcs

\* The user ids of the members of the voice channel.
Speakers == 1..NumSpeakers

\* update_from_speaking(): the user's reverse entry is removed and, when it
\* named another SSRC, that SSRC's forward entry too; then both maps get the
\* new pair, an insert replacing the entry of its key. The username travels
\* with the user id and is left out.
update_from_speaking(ssrc, user) ==
    /\ LET old == {e \in user_to_ssrc : e[1] = user}
           old_ssrc == {e[2] : e \in old} \ {ssrc}
       IN  /\ ssrc_to_user' = {e \in ssrc_to_user : e[1] \notin old_ssrc /\ e[1] # ssrc}
                                  \cup {<<ssrc, user>>}
           /\ user_to_ssrc' = (user_to_ssrc \ old) \cup {<<user, ssrc>>}
    /\ ssrc_last' = [op |-> "update_from_speaking", ssrc |-> ssrc, user_id |-> user]
    /\ UNCHANGED <<coreVars, splitVars, textQueueVars, gateVars, retryVars, handshakeVars>>

\* remove_user(): the user's reverse entry is removed and with it the forward
\* entry of the SSRC it named.
remove_user(user) ==
    /\ LET old == {e \in user_to_ssrc : e[1] = user}
       IN  /\ ssrc_to_user' = {e \in ssrc_to_user : e[1] \notin {o[2] : o \in old}}
           /\ user_to_ssrc' = user_to_ssrc \ old
    /\ ssrc_last' = [op |-> "remove_user", ssrc |-> 0, user_id |-> user]
    /\ UNCHANGED <<coreVars, splitVars, textQueueVars, gateVars, retryVars, handshakeVars>>

SsrcNext ==
    \/ \E ssrc \in Ssrcs, user \in Speakers : update_from_speaking(ssrc, user)
    \/ \E user \in Speakers : remove_user(user)

SsrcSpec == AllNew /\ [][SsrcNext]_vars

\* ------------------------------------------------------------ text message queue
\* on_message reaches "Enqueue message for processing": queue_tx.try_send()
\* succeeds, or finds the queue full and hands the message back.
TrySend ==
    /\ retrying = 0
    /\ next_message <= MaxMessages
    /\ next_message' = next_message + 1
    /\ IF Len(text_queue) < QUEUE_CAPACITY
       THEN text_queue' = Append(text_queue, next_message) /\ UNCHANGED retrying
       ELSE retrying' = next_message /\ UNCHANGED text_queue
    /\ UNCHANGED <<coreVars, splitVars, ssrcVars, gateVars, retryVars, handshakeVars, lost>>

\* The Full branch: the message is sent once more with try_send and the
\* outcome ignored; nothing is taken out of the queue.
TrySendAgain ==
    /\ retrying # 0
    /\ retrying' = 0
    /\ IF Len(text_queue) < QUEUE_CAPACITY
       THEN text_queue' = Append(text_queue, retrying) /\ UNCHANGED lost
       ELSE lost' = lost \cup {retrying} /\ UNCHANGED text_queue
    /\ UNCHANGED <<coreVars, splitVars, ssrcVars, gateVars, retryVars, handshakeVars, next_message>>

\* queue_processor: rx.recv() takes the oldest message.
QueueRecv ==
    /\ text_queue # <<>>
    /\ text_queue' = Tail(text_queue)
    /\ UNCHANGED <<coreVars, splitVars, ssrcVars, gateVars, retryVars, handshakeVars, next_message, retrying, lost>>

TextQueueNext == TrySend \/ TrySendAgain \/ QueueRecv

TextQueueSpec == AllNew /\ [][TextQueueNext]_vars

\* ------------------------------------------------------------ TurnGate
\* The gate and its clones, one per client.
Clients == 1..NumClients

\* A permit handed out by the gate is outstanding.
Outstanding == \E c \in Clients : gate_pc[c] = "holding"

\* The call of client c returns: what gate_last records.
Returned(op, c, value) ==
    [op |-> op, client |-> c, returned |-> value, busy_before |-> Outstanding]

gateFrame == <<coreVars, splitVars, ssrcVars, textQueueVars, retryVars, handshakeVars>>

\* acquire(): the call waits in acquire_owned() until a permit is there, takes
\* it and returns it.
acquire(c) ==
    \/ /\ gate_pc[c] = "idle"
       /\ gate_pc' = [gate_pc EXCEPT ![c] = "waiting"]
       /\ UNCHANGED <<gateFrame, available_permits, gate_last>>
    \/ /\ gate_pc[c] = "waiting"
       /\ available_permits > 0
       /\ available_permits' = available_permits - 1
       /\ gate_pc' = [gate_pc EXCEPT ![c] = "holding"]
       /\ gate_last' = Returned("acquire", c, "Some")
       /\ UNCHANGED gateFrame

\* try_acquire() as it would be if it handed out a permit whatever is left.
try_acquire_AlwaysSome(c) ==
    /\ gate_pc[c] # "waiting"
    /\ gate_pc' = [gate_pc EXCEPT ![c] = "holding"]
    /\ gate_last' = Returned("try_acquire", c, "Some")
    /\ UNCHANGED <<gateFrame, available_permits>>

\* try_acquire(): try_acquire_owned().ok(): a permit when one is left, else None.
try_acquire(c) ==
    /\ gate_pc[c] # "waiting"
    /\ IF available_permits > 0
       THEN /\ available_permits' = available_permits - 1
            /\ gate_pc' = [gate_pc EXCEPT ![c] = "holding"]
            /\ gate_last' = Returned("try_acquire", c, "Some")
       ELSE /\ gate_last' = Returned("try_acquire", c, "None")
            /\ UNCHANGED <<available_permits, gate_pc>>
    /\ UNCHANGED gateFrame

\* is_busy(): available_permits() == 0.
is_busy(c) ==
    /\ gate_pc[c] # "waiting"
    /\ gate_last' = Returned("is_busy", c, IF available_permits = 0 THEN "true" ELSE "false")
    /\ UNCHANGED <<gateFrame, available_permits, gate_pc>>

\* The holder drops its OwnedSemaphorePermit: the permit goes back.
DropPermit(c) ==
    /\ gate_pc[c] = "holding"
    /\ available_permits' = available_permits + 1
    /\ gate_pc' = [gate_pc EXCEPT ![c] = "idle"]
    /\ gate_last' = Returned("drop", c, "None")
    /\ UNCHANGED gateFrame

GateNext == \E c \in Clients : acquire(c) \/ try_acquire(c) \/ is_busy(c) \/ DropPermit(c)

GateSpec == AllNew /\ [][GateNext]_vars

\* ------------------------------------------------------------ connect_with_retry
\* 2u32.saturating_pow(attempt): the power of two while it fits in a u32, else
\* u32::MAX. The value is held as its binary logarithm, u32::MAX apart.
saturating_pow(exp) ==
    IF exp < U32_BITS THEN [log2 |-> exp, saturated |-> FALSE]
                      ELSE [log2 |-> U32_BITS, saturated |-> TRUE]

\* Duration * u32 panics when the product of the seconds and the factor does
\* not fit in a u64: 2^b * 2^a needs b + a < 64, and 2^b * (2^32 - 1) needs
\* b <= 32.
mul_overflows(interval_log2, factor) ==
    IF factor.saturated THEN interval_log2 > U64_BITS - U32_BITS
                        ELSE interval_log2 + factor.log2 >= U64_BITS

\* max_attempts = config.max_reconnect_attempts.max(1).
max_attempts == IF max_reconnect_attempts < 1 THEN 1 ELSE max_reconnect_attempts

retryFrame == <<coreVars, splitVars, ssrcVars, textQueueVars, gateVars, handshakeVars>>

\* connect_async returns Ok: the stream is returned.
ConnectAsyncOk ==
    /\ retry_pc = "connect"
    /\ connects' = connects + 1
    /\ retry_pc' = "Ok"
    /\ UNCHANGED <<retryFrame, max_reconnect_attempts, base_interval, attempt, backoffs>>

\* connect_async returns Err: with no attempt remaining the error is returned;
\* else the backoff is computed, which panics on overflow, and slept.
ConnectAsyncErr ==
    /\ retry_pc = "connect"
    /\ connects' = connects + 1
    /\ IF max_attempts - attempt - 1 = 0
       THEN /\ retry_pc' = "Err"
            /\ UNCHANGED backoffs
       ELSE IF mul_overflows(base_interval, saturating_pow(attempt))
       THEN /\ retry_pc' = "panic"
            /\ UNCHANGED backoffs
       ELSE /\ retry_pc' = "sleep"
            /\ backoffs' = Append(backoffs, saturating_pow(attempt))
    /\ UNCHANGED <<retryFrame, max_reconnect_attempts, base_interval, attempt>>

\* tokio::time::sleep(backoff) is over: the next iteration of the for loop.
SleepOver ==
    /\ retry_pc = "sleep"
    /\ attempt' = attempt + 1
    /\ retry_pc' = "connect"
    /\ UNCHANGED <<retryFrame, max_reconnect_attempts, base_interval, connects, backoffs>>

RetryNext == ConnectAsyncOk \/ ConnectAsyncErr \/ SleepOver

\* The configurations: any number of attempts, and an interval of one second
\* (the default) or of 2^MaxIntervalLog2 seconds.
RetryInit ==
    /\ PipelineIdle /\ GatewayNew /\ PlaybackNew /\ TtsIdle /\ CacheIdle
    /\ SplitNew(DEFAULT_MIN_LENGTH) /\ SsrcNew /\ TextQueueNew /\ GateNew
    /\ HandshakeNew([h \in 1..NumHandlers |-> "state"])
    /\ \E max \in 0..MaxAttempts, interval_log2 \in {0, MaxIntervalLog2} :
           RetryNew(max, interval_log2)

RetrySpec == RetryInit /\ [][RetryNext]_vars

\* ------------------------------------------------------------ handshake handlers
\* The handlers running concurrently for the guild; handler h brings half h.
Handlers == 1..NumHandlers

handshakeFrame == <<coreVars, splitVars, ssrcVars, textQueueVars, gateVars, retryVars>>

\* pending_voice_states.insert(guild_id, data), resp.
\* pending_voice_servers.insert(guild_id, data): the entry is replaced.
InsertHalf(h) ==
    /\ hs_pc[h] = "insert"
    /\ IF hs_kind[h] = "state"
          THEN hs_states' = {h} /\ UNCHANGED hs_servers
          ELSE hs_servers' = {h} /\ UNCHANGED hs_states
    /\ hs_pc' = [hs_pc EXCEPT ![h] = "contains"]
    /\ UNCHANGED <<handshakeFrame, hs_kind, hs_state, attempts>>

\* contains_key on the other map: try_connect is entered when it holds the guild.
ContainsOther(h) ==
    /\ hs_pc[h] = "contains"
    /\ hs_pc' = [hs_pc EXCEPT ![h] =
                    IF (IF hs_kind[h] = "state" THEN hs_servers ELSE hs_states) # {}
                    THEN "remove_state" ELSE "done"]
    /\ UNCHANGED <<handshakeFrame, hs_kind, hs_states, hs_servers, hs_state, attempts>>

\* try_connect() as it would be if it read the state entry and left it in the
\* map.
RemoveState_Peek(h) ==
    /\ hs_pc[h] = "remove_state"
    /\ IF hs_states = {}
          THEN /\ hs_pc' = [hs_pc EXCEPT ![h] = "done"]
               /\ UNCHANGED hs_state
          ELSE /\ hs_state' = [hs_state EXCEPT ![h] = <<CHOOSE s \in hs_states : TRUE>>]
               /\ hs_pc' = [hs_pc EXCEPT ![h] = "remove_server"]
    /\ UNCHANGED <<handshakeFrame, hs_kind, hs_states, hs_servers, attempts>>

\* try_connect(): pending_voice_states.remove(&guild_id); None returns.
RemoveState(h) ==
    /\ hs_pc[h] = "remove_state"
    /\ IF hs_states = {}
          THEN /\ hs_pc' = [hs_pc EXCEPT ![h] = "done"]
               /\ UNCHANGED <<hs_states, hs_state>>
          ELSE /\ hs_state' = [hs_state EXCEPT ![h] = <<CHOOSE s \in hs_states : TRUE>>]
               /\ hs_states' = {}
               /\ hs_pc' = [hs_pc EXCEPT ![h] = "remove_server"]
    /\ UNCHANGED <<handshakeFrame, hs_kind, hs_servers, attempts>>

\* try_connect(): pending_voice_servers.remove(&guild_id); None puts the state
\* back and returns, Some goes on to the single call.connect.
RemoveServer(h) ==
    /\ hs_pc[h] = "remove_server"
    /\ IF hs_servers = {}
          THEN /\ hs_states' = {hs_state[h][1]}
               /\ UNCHANGED <<hs_servers, attempts>>
          ELSE /\ hs_servers' = {}
               /\ attempts' = Append(attempts, [state |-> hs_state[h][1],
                                                 server |-> CHOOSE s \in hs_servers : TRUE])
               /\ UNCHANGED hs_states
    /\ hs_pc' = [hs_pc EXCEPT ![h] = "done"]
    /\ UNCHANGED <<handshakeFrame, hs_kind, hs_state>>

\* The handlers run on a multi-threaded runtime: any of them makes its next
\* map operation.
HandshakeNext ==
    \E h \in Handlers :
        \/ InsertHalf(h)
        \/ ContainsOther(h)
        \/ RemoveState(h)
        \/ RemoveServer(h)

HandshakeInit ==
    /\ PipelineIdle /\ GatewayNew /\ PlaybackNew /\ TtsIdle /\ CacheIdle
    /\ SplitNew(DEFAULT_MIN_LENGTH) /\ SsrcNew /\ TextQueueNew /\ GateNew
    /\ RetryNew(DEFAULT_MAX_RECONNECT_ATTEMPTS, 0)
    /\ \E kinds \in [Handlers -> {"state", "server"}] : HandshakeNew(kinds)

HandshakeSpec == HandshakeInit /\ [][HandshakeNext]_vars

\* ------------------------------------------------------------ properties
\* The tasks that own an STT session: spawned and not finished.
LiveTasks == {t \in Tasks : Live(t)}

\* The entries of the transcript that the worker(s) of user u emitted.
RECURSIVE EntriesOf(_, _)
EntriesOf(u, log) ==
    IF log = <<>> THEN <<>>
    ELSE IF Head(log).user = u THEN <<Head(log).kind>> \o EntriesOf(u, Tail(log))
    ELSE EntriesOf(u, Tail(log))

BotEntry == {"BotResponse", "BotResponseInterrupted"}

\* C1: at any moment at most one worker is inside agent_bridge.generate
\* (agent turns are serialised process-wide).
C1_OneAgentTurnInFlight ==
    Cardinality({t \in Tasks : pc[t] = "generate"}) <= 1

\* C2: at most one live worker task exists per user id, and the handle the
\* table holds for a user is that of a worker of this user, shared with no
\* other user.
C2_OneWorkerPerUser ==
    /\ \A u \in Users : Cardinality({t \in LiveTasks : user_id[t] = u}) <= 1
    /\ \A u \in Users : workers[u] # NoHandle => user_id[workers[u].task] = u
    /\ \A t \in LiveTasks : dispatcher_alive => workers[user_id[t]].task = t

\* C2 witness: a user's worker has exited and finished, and a second worker
\* spawned for the same user is live.
C2_Witness ==
    \E t1, t2 \in Tasks :
        /\ t1 # t2
        /\ user_id[t1] = user_id[t2]
        /\ pc[t1] = "done"
        /\ exit[t1] # "none"
        /\ Live(t2)
        /\ workers[user_id[t2]].task = t2

\* C3: the number of live workers (STT sessions) never exceeds
\* max_concurrent_stt.
C3_SttSessionsBounded ==
    Cardinality(LiveTasks) <= max_concurrent_stt

\* C4: a handle_interrupt(u) call made with interrupts enabled and u's flag set
\* ends with the flag clear, the token held before cancelled, and a new,
\* never-issued and uncancelled token in the handle.
C4_InterruptPostcondition ==
    [][\A u \in Users :
          (/\ interrupt_enabled
           /\ workers[u] # NoHandle
           /\ is_playing[workers[u].task]
           /\ handle_interrupt(u))
          => (/\ workers'[u] # NoHandle
              /\ workers'[u].task = workers[u].task
              /\ ~is_playing'[workers'[u].task]
              /\ workers[u].cancel \in cancelled'
              /\ workers'[u].cancel # workers[u].cancel
              /\ workers'[u].cancel >= next_token
              /\ workers'[u].cancel \notin cancelled')]_vars

\* C4 witness: a handle whose token was rotated by an interrupt: the worker's
\* token is cancelled, the handle's is a different, uncancelled one, and the
\* flag is clear.
C4_Witness ==
    \E u \in Users :
        /\ workers[u] # NoHandle
        /\ workers[u].cancel # cancel[workers[u].task]
        /\ is_cancelled(cancel[workers[u].task])
        /\ ~is_cancelled(workers[u].cancel)
        /\ ~is_user_playing(u)

\* C5: after a barge-in interrupt (the only caller of cancel()) the worker does
\* not exit with Cancelled, and no response of it starts already cancelled.
C5_InterruptKeepsWorker ==
    \A t \in Tasks :
        is_cancelled(cancel[t]) =>
            /\ exit[t] # "Cancelled"
            /\ pc[t] = "generate" => ~response_cancelled(t)

\* C6: a SpeechStart delivered by the user's STT session while the response is
\* playing leads to the response's token being cancelled.
C6_SpeechStartCancelsResponse ==
    \A t \in Tasks :
        (/\ pc[t] = "tts"
         /\ is_playing[t]
         /\ stt_events[t] # <<>>
         /\ Head(stt_events[t]) = "SpeechStart")
        ~> response_cancelled(t)

\* C7: for one user the transcript alternates: it starts with UserSpeech, no
\* two UserSpeech entries follow each other and no two bot entries do.
C7_TranscriptAlternates ==
    \A u \in Users :
        LET log == EntriesOf(u, transcript) IN
        \A i \in 1..Len(log) :
            IF i % 2 = 1 THEN log[i] = "UserSpeech" ELSE log[i] \in BotEntry

\* C8: no worker terminates because agent.generate or tts.synthesize failed.
C8_ResponseErrorKeepsWorker ==
    \A t \in Tasks : exit[t] \notin {"AgentError", "TtsError"}

\* C9: is_playing is set only while a response is between being marked as
\* playing and finishing; it is clear in the main loop and after the exit.
C9_PlayingOnlyDuringResponse ==
    \A t \in Tasks : is_playing[t] => pc[t] \in {"tts", "check_send"}

\* C10: a running worker whose token is cancelled eventually exits with
\* Cancelled.
C10_CancelledWorkerExits ==
    \A t \in Tasks :
        (/\ pc[t] \in {"select", "drain", "generate", "check_tts", "tts", "check_send"}
         /\ is_cancelled(cancel[t]))
        ~> (exit[t] = "Cancelled")

\* The transitions the connection state machine permits.
AllowedTransitions ==
    {<<"Disconnected", "Connecting">>, <<"Connecting", "Connected">>,
     <<"Connecting", "Disconnected">>, <<"Connected", "Disconnected">>,
     <<"Connected", "Reconnecting">>, <<"Reconnecting", "Connected">>,
     <<"Reconnecting", "Disconnected">>}

\* C11: whatever gateway operation runs, each change of a guild's connection
\* state is one of the allowed transitions, and an operation that asks for a
\* transition outside that set has it rejected and leaves the guild's state as
\* it was.
C11_OnlyAllowedTransitions ==
    [][/\ \A g \in Guilds :
            connection_states'[g] # connection_states[g]
            => <<connection_states[g], connection_states'[g]>> \in AllowedTransitions
       /\ \A g \in Guilds :
            (/\ gw_last'.guild = g
             /\ gw_last'.to # "None"
             /\ <<connection_states[g], gw_last'.to>> \notin AllowedTransitions)
            => /\ ~gw_last'.accepted
               /\ connection_states'[g] = connection_states[g]]_vars

\* Both halves of a handshake arrived for a guild that was never joined, the
\* connect succeeded and the request for Connected was rejected, while
\* another guild went through Connecting to Connected.
C11_Witness ==
    /\ gw_last.op = "voice_server"
    /\ gw_last.attempts = 1
    /\ gw_last.to = "Connected"
    /\ ~gw_last.accepted
    /\ connection_states[gw_last.guild] = "Disconnected"
    /\ \E g \in Guilds : connection_states[g] = "Connected"

C13_LeaveClearsPending ==
    gw_last.op = "leave"
    => gw_last.guild \notin pending_voice_states \cup pending_voice_servers

\* C14: whatever submits have been made since the queue was created or last
\* reset, in any order and with repeated indices, the segments sent on the
\* output channel carry the indices 0, 1, 2, ... in that order, without gap or
\* repeat; so the first one sent is a submitted segment with index 0.
C14_DeliveredInIndexOrder ==
    \A k \in 1..Len(delivered) : delivered[k].index = k - 1

\* Indices arrived out of order and one of them twice: three segments have been
\* sent, the last submit was the one for index 0, and the buffer still holds a
\* copy of a segment that has been played.
C14_Witness ==
    /\ Len(delivered) >= 3
    /\ pq_last.op = "submit"
    /\ pq_last.index = 0
    /\ \E s \in buffer : s.index < next_index

\* C15: reset() leaves the queue as new() creates it (next_index 0, empty
\* buffer, no total, the receiver of a new channel held by the queue);
\* take_rx returns the receiver when the queue holds it and leaves none
\* behind; a segment with index 0 submitted right after creation or reset is
\* the first one on the channel; and every segment on the current channel was
\* submitted after the last reset.
C15_ResetLikeNew ==
    [][/\ resets' = resets + 1
          => /\ next_index' = 0
             /\ buffer' = {}
             /\ total_segments' = <<>>
             /\ rx' = "Some"
             /\ receiver_alive'
             /\ delivered' = <<>>
       /\ (pq_last'.op = "take_rx" /\ resets' = resets)
          => /\ pq_last'.returned = rx
             /\ rx' = "None"
       /\ (pq_last'.op = "submit" /\ pq_last'.index = 0 /\ resets' = resets
           /\ next_index = 0 /\ receiver_alive)
          => /\ Len(delivered') >= 1
             /\ delivered'[1] = [index |-> 0, response |-> resets]
       /\ \A k \in 1..Len(delivered') : delivered'[k].response = resets']_vars

\* The queue was reset, its new receiver taken, and segments 0 and 1 of the
\* next response have been sent on the new channel.
C15_Witness ==
    /\ resets = 1
    /\ rx = "None"
    /\ Len(delivered) = 2
    /\ delivered[1] = [index |-> 0, response |-> 1]
    /\ buffer = {}

\* C16: the synthesis tasks that have started and not finished are never more
\* than max_concurrent; and with max_concurrent = 1 a task is in its provider
\* call only when every task spawned before it has finished.
C16_AtMostMaxConcurrent ==
    /\ Cardinality(InFlight) <= max_concurrent
    /\ max_concurrent = 1
       => \A t \in DOMAIN synth :
            synth[t].pc = "synthesize" => \A u \in 1..(t - 1) : synth[u].pc = "done"

\* With one permit: a first task has finished, a second is running, and the
\* outer task waits for a permit for a third sentence.
C16_Witness ==
    /\ max_concurrent = 1
    /\ permits = 0
    /\ feeder = "acquire"
    /\ Len(synth) = 2
    /\ synth[1].pc = "done"
    /\ synth[2].pc # "done"

\* The receiver has seen the end of the channel, every permit is back, and for
\* each sentence of the input exactly one item was received that names its
\* index: a TtsSegment with its text, or an error.
AllEmitted ==
    /\ rx_ended
    /\ permits = max_concurrent
    /\ \A k \in 1..Len(sentence_stream) :
         sentence_stream[k].kind = "Seg"
         => LET items == {j \in 1..Len(received) :
                             /\ received[j].kind \in {"Ok", "Err"}
                             /\ received[j].index = sentence_stream[k].index}
            IN  /\ Cardinality(items) = 1
                /\ \A j \in items : received[j].kind = "Ok"
                                    => received[j].text = sentence_stream[k].text

\* C17 as stated: for every sentence fed to process exactly one item is
\* eventually emitted, the permits are returned and the channel closes, while
\* the receiver keeps reading.
C17_EverySegmentEmitted == <>[]AllEmitted

\* C17 for a pipeline with at least one permit: for every sentence fed to
\* process exactly one item is eventually emitted (the segment with the same
\* index and text, or an error), the permits are returned and the channel
\* closes, while the receiver keeps reading.
C17_EverySegmentEmittedWithPermit == <>[](max_concurrent >= 1 => AllEmitted)

\* Three sentences went through a pipeline with permits: the receiver got three
\* items, a segment and an error among them, and then the end of the channel.
C17_Witness ==
    /\ max_concurrent >= 1
    /\ AllEmitted
    /\ Len(received) = 3
    /\ \E j \in 1..3 : received[j].kind = "Ok"
    /\ \E j \in 1..3 : received[j].kind = "Err"

\* C18: when the pipeline has finished and everything it emitted has been
\* forwarded, every segment that was synthesized has been sent on for
\* playback, whether or not a segment before it failed.
C18_FailureSkipsOnlyThatSegment ==
    rx_ended
    => \A j \in 1..Len(received) :
         received[j].kind = "Ok"
         => \E k \in 1..Len(delivered) : delivered[k].index = received[j].index

\* C19: after every insert() has returned, the summed length of the audio the
\* cache holds is at most max_total_bytes, also when the inserted audio alone
\* is longer than the limit.
C19_TotalWithinLimit ==
    cache_last.op = "insert" => total_size_bytes(rows) <= max_total_bytes

\* An insert of audio longer than the limit into a cache that held entries
\* has returned, and the table is empty.
C19_Witness ==
    /\ cache_last.op = "insert"
    /\ Len(cache_last.given.audio_data) > max_total_bytes
    /\ cache_last.count_before >= 1
    /\ rows = {}

\* C20 as stated: an insert for parameters that are already present leaves
\* entry_count unchanged.
C20_UpsertKeepsCount ==
    [][(cache_last'.op = "insert" /\ cache_last'.present_before)
          => entry_count(rows') = entry_count(rows)]_vars

\* C20: after insert(p, a) the cache holds at most one entry for p, exactly
\* one when a fits the limit, and that entry is a; lookup(p) returns the entry
\* the cache holds for p; no operation alters the entry of other parameters
\* other than by removing it; and an insert for parameters that are already
\* present leaves entry_count unchanged when the total after the replacement
\* is within the limit.
C20_UpsertAndLookup ==
    [][LET p == cache_last'.params
           a == cache_last'.given
       IN  /\ cache_last'.op = "insert" =>
                 /\ Cardinality(RowsFor(rows', p)) <= 1
                 /\ Len(a.audio_data) <= max_total_bytes
                       => Cardinality(RowsFor(rows', p)) = 1
                 /\ \A row \in RowsFor(rows', p) : Entry(row) = a
                 /\ (/\ cache_last'.present_before
                     /\ total_size_bytes(rows \ RowsFor(rows, p)) + Len(a.audio_data)
                           <= max_total_bytes)
                       => entry_count(rows') = entry_count(rows)
           /\ cache_last'.op = "lookup" =>
                 /\ cache_last'.returned = lookup_result(rows, p)
                 /\ \A row \in RowsFor(rows', p) : cache_last'.returned = Entry(row)
           /\ \A q \in Params :
                 (cache_last'.op = "insert" => q # p) =>
                     \A row \in RowsFor(rows', q) :
                         \E old \in RowsFor(rows, q) : Entry(old) = Entry(row)
      ]_vars

\* An insert has replaced the entry of parameters that were present with other
\* audio, and the cache holds as many entries as before.
C20_Witness ==
    /\ cache_last.op = "insert"
    /\ cache_last.present_before
    /\ cache_last.count_before = 2
    /\ entry_count(rows) = 2
    /\ \E row \in RowsFor(rows, cache_last.params) :
          Entry(row) = cache_last.given /\ Len(row.audio_data) = 1

\* C21: an insert or a lookup hit makes the entry it touches the most recently
\* used one, no operation changes the access order of the other entries, and
\* every entry an insert evicts was used less recently than every entry that
\* stays; so a lookup hit keeps an entry from being the next victim.
C21_EvictsLeastRecentlyUsed ==
    [][LET p == cache_last'.params
           others == rows \ RowsFor(rows, p)
           stays(row) == \E new \in rows' : new.cache_key = row.cache_key
       IN  /\ (cache_last'.op = "insert" \/
                  (cache_last'.op = "lookup" /\ cache_last'.present_before))
                 => \A row \in RowsFor(rows', p) :
                       \A other \in rows' \ {row} : other.access_seq < row.access_seq
           /\ \A new \in rows' \ RowsFor(rows', p) : new \in rows
           /\ cache_last'.op = "insert"
                 => \A gone \in others : \A kept \in others :
                       (~stays(gone) /\ stays(kept)) => gone.access_seq < kept.access_seq
      ]_vars

\* A (key 1) was inserted first, then B (key 2), both of one byte under a limit
\* of two; A was looked up, C (key 3) inserted: A and C are left.
C21_Witness ==
    /\ max_total_bytes = 2
    /\ cache_last.op = "insert" /\ cache_last.params = 3 /\ cache_last.count_before = 2
    /\ {row.cache_key : row \in rows} = {generate_cache_key(1), generate_cache_key(3)}
    /\ \E a \in RowsFor(rows, 1), c \in RowsFor(rows, 3) :
          /\ a.access_seq = 3 /\ c.access_seq = 4
          /\ Len(a.audio_data) = 1 /\ Len(c.audio_data) = 1

\* The texts of the segments among the items, concatenated in order.
RECURSIVE Texts(_)
Texts(out) == IF out = <<>> THEN <<>> ELSE Head(out).text \o Texts(Tail(out))

\* A string without its whitespace characters.
NonWhitespace(s) == SelectSeq(s, LAMBDA c : trim(<<c>>) # <<>>)

\* No error has come from the token stream.
ErrorFree == \A k \in 1..Len(sentences) : sentences[k].kind = "Ok"

\* C22: for an error-free token stream, the texts of the emitted segments in
\* emission order, followed while the task runs by what it still buffers, are
\* the concatenated input tokens up to whitespace; so once the task has ended
\* no non-whitespace character is lost, duplicated or reordered.
C22_ConcatIsInput ==
    ErrorFree =>
        NonWhitespace(Texts(sentences) \o
                      (IF split_task = "running" THEN split_buffer ELSE <<>>))
            = NonWhitespace(input)

\* A split has ended after a short first sentence was merged with the text
\* after it and emitted at a paragraph break, the rest being flushed.
C22_Witness ==
    /\ split_task = "returned" /\ ErrorFree
    /\ min_length = 2
    /\ Len(sentences) = 2
    /\ input # <<>> /\ Head(input) = "!"

\* C23: once a token has been handled, the buffer holds no text that ends
\* with a sentence delimiter and whose trimmed length is at least min_length:
\* a short sentence merged with what follows is emitted at the next delimiter
\* that makes it long enough.
C23_MergedTextEmittedAtDelimiter ==
    split_task = "running" =>
        \A i \in 1..Len(split_buffer) :
            split_buffer[i] \in SENTENCE_DELIMITERS
                => Len(trim(SubSeq(split_buffer, 1, i))) < min_length

\* C24: the k-th item a split call emits is the segment of index k - 1, and
\* its text is trimmed and not empty.
C24_IndicesAndNonEmptyText ==
    \A k \in 1..Len(sentences) :
        sentences[k].kind = "Ok" =>
            /\ sentences[k].index = k - 1
            /\ sentences[k].text # <<>>
            /\ trim(sentences[k].text) = sentences[k].text

\* C25: the forward map and the reverse map are inverses of each other: an
\* SSRC resolves to a user exactly when the user's reverse entry names it.
C25_MapsAreInverses ==
    \A ssrc \in Ssrcs, user \in Speakers :
        <<ssrc, user>> \in ssrc_to_user <=> <<user, ssrc>> \in user_to_ssrc

\* C26: no message that arrived is lost by the enqueue: when the queue is
\* full the new message is the one that gets in.
C26_NewMessageNeverLost == lost = {}

C27_InterruptNoop ==
    [][\A u \in Users :
          (/\ ~(interrupt_enabled /\ workers[u] # NoHandle /\ is_playing[workers[u].task])
           /\ handle_interrupt(u))
          => UNCHANGED <<is_playing, workers, cancelled, next_token>>]_vars

\* Interrupts are enabled and a user has a handle whose flag is false and whose
\* token has never been rotated or cancelled: handle_interrupt finds nothing
\* to do.
C27_Witness ==
    /\ dispatcher_alive /\ interrupt_enabled
    /\ \E u \in Users :
          /\ workers[u] # NoHandle
          /\ ~is_playing[workers[u].task]
          /\ workers[u].cancel = cancel[workers[u].task]
          /\ ~is_cancelled(workers[u].cancel)
          /\ pc[workers[u].task] = "generate"

\* C29: once set_total(n) has been called and the segments 0 .. n-1 have all
\* been emitted, the queue has dropped its sender, so that the receiver sees
\* the end of the stream.
C29_ClosedWhenAllEmitted ==
    (/\ total_segments # <<>>
     /\ Head(total_segments) >= 1
     /\ next_index >= Head(total_segments)
     /\ Len(delivered) = next_index)
        => ~tx_open

\* C30: a guild that is Connecting is later Connected or Disconnected.
C30_ConnectingEnds ==
    \A g \in Guilds :
        (connection_states[g] = "Connecting")
            ~> (connection_states[g] \in {"Connected", "Disconnected"})

\* C31: a dispatch(u) call that finds u's handle with the worker's receiver
\* gone removes the handle; a dispatch(u) call that finds no handle spawns a
\* new worker whose queue holds the chunk; and after any dispatch(u) call u has
\* either no handle or a handle whose worker's receiver exists.
C31_StaleHandleRemoved ==
    [][\A u \in Users :
          dispatch(u) =>
             /\ (workers[u] # NoHandle /\ ~RxAlive(workers[u].task))
                   => workers'[u] = NoHandle
             /\ workers[u] = NoHandle
                   => /\ workers'[u] # NoHandle
                      /\ workers'[u].task = next_task
                      /\ pc[next_task] = "unspawned"
                      /\ audio_rx'[next_task] = 1
             /\ workers'[u] # NoHandle
                   => pc'[workers'[u].task] \notin {"unspawned", "done"}]_vars

\* A user's first worker has ended, its handle was removed, and the user has
\* a second worker whose queue holds the chunk of the dispatch that spawned it.
C31_Witness ==
    \E u \in Users :
        /\ user_id[1] = u /\ pc[1] = "done"
        /\ workers[u] # NoHandle /\ workers[u].task = 2
        /\ pc[2] = "connect" /\ audio_rx[2] = 1

\* C32: every step that takes a worker out of its main select obeys the biased
\* order: with the token cancelled the worker returns Cancelled and takes no
\* chunk from its audio channel, whatever is queued and whether or not the idle
\* deadline has passed; with only the idle deadline passed it returns
\* IdleTimeout and takes no chunk either.
C32_BiasedSelect ==
    [][\A t \in Tasks :
          (pc[t] = "select" /\ pc'[t] # "select") =>
             /\ is_cancelled(cancel[t])
                   => /\ pc'[t] = "returned" /\ exit'[t] = "Cancelled"
                      /\ audio_rx'[t] = audio_rx[t]
             /\ (~is_cancelled(cancel[t]) /\ deadline_passed[t])
                   => /\ pc'[t] = "returned" /\ exit'[t] = "IdleTimeout"
                      /\ audio_rx'[t] = audio_rx[t]]_vars

\* A worker has left its select on the idle deadline with a chunk still queued.
C32_Witness ==
    \E t \in Tasks : /\ pc[t] = "returned" /\ exit[t] = "IdleTimeout"
                     /\ audio_rx[t] > 0

\* C33: a paragraph break is a split point: no emitted segment holds a
\* paragraph break after text that, trimmed, meets min_length, so no segment
\* holds text from both sides of such a break.
C33_ParagraphBreakSplits ==
    \A k \in 1..Len(sentences) :
        sentences[k].kind = "Ok" =>
            \A i \in 1..(Len(sentences[k].text) - 1) :
                (sentences[k].text[i] = "\n" /\ sentences[k].text[i + 1] = "\n")
                    => Len(trim(SubSeq(sentences[k].text, 1, i - 1))) < min_length

\* The smallest index that has not been submitted on the current channel.
SmallestUnsubmitted ==
    CHOOSE k \in 0..(MaxIndex + 1) :
        /\ k \notin submitted.indices
        /\ \A j \in 0..(k - 1) : j \in submitted.indices

\* With k the smallest index not yet submitted: the segments sent are those of
\* index below k in index order, next_index is k, and the buffer holds the
\* submitted segments of index above k.
DeliveredUpToGap ==
    /\ next_index = SmallestUnsubmitted
    /\ Len(delivered) = SmallestUnsubmitted
    /\ \A j \in 1..Len(delivered) : delivered[j] = [index |-> j - 1, response |-> resets]
    /\ buffer = {[index |-> i, response |-> resets] :
                    i \in {i \in submitted.indices : i > SmallestUnsubmitted}}

\* C34: after any sequence of submits with distinct indices, the segments of
\* index below the smallest unsubmitted index k have been delivered, next_index
\* is k, and the buffer holds exactly the submitted segments of index above k.
C34_DeliveredUpToGap ==
    submitted.distinct => DeliveredUpToGap

\* C34, for a channel whose receiver has not been dropped.
C34_DeliveredUpToGapWhileReceived ==
    (submitted.distinct /\ receiver_alive) => DeliveredUpToGap

\* Indices 1 and 2 were submitted before index 0: the submit of index 0 has
\* sent all three.
C34_Witness ==
    /\ submitted.distinct
    /\ receiver_alive
    /\ pq_last.op = "submit"
    /\ pq_last.index = 0
    /\ next_index = 3
    /\ Len(delivered) = 3

\* C36: when the worker takes a Final event with blank text from its STT
\* session, no transcript entry is logged, process_text is not entered (so
\* there is no agent call), nothing is put on the audio output channel, and
\* the worker stays in its event loop for the events that follow.
C36_BlankFinalIgnored ==
    [][\A t \in Tasks :
          (/\ pc[t] = "drain"
           /\ stt_events[t] # <<>>
           /\ Head(stt_events[t]) = "FinalBlank"
           /\ stt_events'[t] # stt_events[t]
           /\ Len(stt_events'[t]) < Len(stt_events[t]))
          => /\ transcript' = transcript
             /\ audio_output' = audio_output
             /\ pc'[t] = "drain"
             /\ exit'[t] = exit[t]
             /\ stt_events'[t] = Tail(stt_events[t])]_vars

\* A worker is about to handle a blank Final, and a Final with text has arrived
\* behind it.
C36_Witness ==
    \E t \in Tasks : /\ pc[t] = "drain"
                     /\ stt_events[t] = <<"FinalBlank", "Final">>
                     /\ transcript = <<>>

\* The last entry of a log, or "none" for an empty log.
LastOf(log) == IF log = <<>> THEN "none" ELSE log[Len(log)]

C38_DisconnectedHasNoCall ==
    \A g \in Guilds : connection_states[g] = "Disconnected" => g \notin calls

\* C39: when join(g) has returned an error, g's connection state is what it
\* was before the call.
C39_FailedJoinKeepsState ==
    (gw_last.op = "join" /\ gw_last.result = "Err")
        => connection_states[gw_last.guild] = gw_last.from

\* C37: connect_with_retry ends by returning: it never makes more than
\* max(1, max_reconnect_attempts) connection attempts, it returns the error
\* exactly after that many failures, every backoff it sleeps is twice the one
\* before it, and it sleeps once less than it has failed, so never after the
\* last failure.
C37_RetryBoundedDoubling ==
    /\ retry_pc # "panic"
    /\ connects <= max_attempts
    /\ retry_pc = "Err" => (connects = max_attempts /\ Len(backoffs) = connects - 1)
    /\ retry_pc = "Ok" => Len(backoffs) = connects - 1
    /\ \A k \in 2..Len(backoffs) :
          /\ ~backoffs[k].saturated
          /\ backoffs[k].log2 = backoffs[k - 1].log2 + 1

\* C35: however the map operations of the handlers of a guild interleave, no
\* handshake half is used in two connection attempts, so no two attempts are
\* made for one pair of halves; and an attempt uses a state half and a server
\* half that have arrived.
C35_HalvesUsedOnce ==
    /\ \A a, b \in 1..Len(attempts) :
          a # b => /\ attempts[a].state # attempts[b].state
                   /\ attempts[a].server # attempts[b].server
    /\ \A a \in 1..Len(attempts) :
          /\ hs_kind[attempts[a].state] = "state"
          /\ hs_kind[attempts[a].server] = "server"
          /\ hs_pc[attempts[a].state] # "insert"
          /\ hs_pc[attempts[a].server] # "insert"

\* The state handler and the server handler both entered try_connect: one of
\* them took the state half and made the attempt, the other found no state
\* entry and returned.
C35_Witness ==
    /\ hs_kind[1] = "state" /\ hs_kind[2] = "server"
    /\ hs_pc[1] = "done" /\ hs_pc[2] = "done"
    /\ hs_state[1] = <<>>
    /\ hs_state[2] = <<1>>
    /\ attempts = <<[state |-> 1, server |-> 2]>>
    /\ hs_pc[3] = "insert"
====
